---- MODULE Spec2Model ----
(***************************************************************************)
(* InFlags: the case-flag codec (inflags/inca.py, class InCa) and the      *)
(* diacritic-flag codec (inflags/india.py, class InDia).                   *)
(*                                                                         *)
(* A character is a string: an ASCII character stands for itself, any      *)
(* other code point is written "U+XXXX".  A Python str is a sequence of    *)
(* characters, a token list is a sequence of such sequences.               *)
(***************************************************************************)
EXTENDS Integers, Sequences, FiniteSets, TLC

VARIABLES
    cls,        \* which object is in use: "InCa" or "InDia"
    pc,         \* position of the caller / of the running method
    config,     \* self.config
    vocab,      \* self.vocab (a function from base to preferred form)
    naive,      \* the naive_encoding / naive_decoding argument
    text,       \* the line (or the list of lines) handed to the method
    tokens,     \* list of tokens: _tokenize's result, or the loop's input
    encoded,    \* result of _encode_line
    decoded,    \* result of _detokenize / _decode_line / decode_string
    decoded_string,     \* the list of decoded lines built by decode_string
    idx,        \* loop indices of the running method
    pending,    \* the decoder's pending register (action / diacr_id)
    was_first_alphanum_token,   \* the decoder's seen-first-word flag
    result,     \* the list being built by the running loop
    counts      \* the trainer's counts table

vars == <<cls, pc, config, vocab, naive, text, tokens, encoded, decoded,
          decoded_string, idx, pending, was_first_alphanum_token, result,
          counts>>

----------------------------------------------------------------------------
(* Bounds of the model                                                      *)

MaxTokLen == 5      \* longest line of the tokenizer specification
MaxCaseLen == 4     \* longest line of the case codec specification
MaxDiaLen == 4      \* longest line of the diacritic codec specification
MaxPieces == 4      \* most pieces of a text handed to decode_string
MaxLineWords == 2   \* most words on a line of a training corpus
MaxCorpus == 3      \* most lines of a training corpus
MaxMinCount == 2    \* largest min_count of a training run
MaxCalls == 3       \* most encode / decode calls made on one object
MaxRetrainLines == 3    \* most lines of a corpus that is trained on twice
MaxCountLen == 4    \* longest corpus line of the case trainer's line loop
MaxStepPieces == 3  \* most pieces of a line decoded token by token
MaxWordLen == 3     \* longest token handed to _encode_token
MaxDiaWordLen == 2  \* longest token of the diacritic codec's token steps
MaxDeltaOffset == 1 \* largest offset of a pending delta
MaxPrefixPieces == 3 \* pieces of a line handed to the case decoder
MaxOffset == 11     \* largest offset of a serialized delta
MaxDeltaKeys == 3   \* most entries of a serialized delta
MaxRestoreLen == 2  \* longest word handed to _restore_diacr

----------------------------------------------------------------------------
(* Characters                                                               *)

LowerLetters == <<"a","b","c","d","e","f","g","h","i","j","k","l","m",
                  "n","o","p","q","r","s","t","u","v","w","x","y","z">>
UpperLetters == <<"A","B","C","D","E","F","G","H","I","J","K","L","M",
                  "N","O","P","Q","R","S","T","U","V","W","X","Y","Z">>
Digits       == <<"0","1","2","3","4","5","6","7","8","9">>

Range(s) == {s[i] : i \in DOMAIN s}

IndexOf(s, c) == CHOOSE i \in DOMAIN s : s[i] = c

\* Non-ASCII code points of the model.
\*   U+00E1 a-acute, U+00E5 a-ring, U+01FB a-ring-acute, U+010D c-caron,
\*   U+00FD y-acute and their capitals U+00C1 U+00C5 U+01FA U+010C U+00DD,
\*   U+03B8 theta, U+0398 THETA, U+03F4 THETA SYMBOL (lower() is theta),
\*   U+0301 / U+030C / U+030A combining acute / caron / ring above (Mn),
\*   U+A505 U+A506 U+A52A U+A52B U+A550 U+A551 Vai syllables (Lo),
\*   U+24B6.. circled Latin letters (So), U+24EA circled zero (No),
\*   U+24FF negative circled zero (No).
UncasedLetters == {"U+A505", "U+A506", "U+A52A", "U+A52B", "U+A550", "U+A551"}
OtherNumbers == {"U+24EA", "U+24FF"}
CombiningMarks == {"U+0301", "U+030C", "U+030A"}

CHAR_FLAGS == <<"U+24B6", "U+24B7", "U+24B8">>

\* Case pairs outside ASCII: lower-case letter, its upper-case letter.
OtherLowerSeq == <<"U+00E1", "U+00E5", "U+01FB", "U+010D", "U+00FD", "U+03B8">>
OtherUpperSeq == <<"U+00C1", "U+00C5", "U+01FA", "U+010C", "U+00DD", "U+0398">>

LowerCased == Range(LowerLetters) \cup Range(OtherLowerSeq)
UpperCased == Range(UpperLetters) \cup Range(OtherUpperSeq) \cup {"U+03F4"}

\* set(chr(i) for i in range(sys.maxunicode)
\*     if unicodedata.category(chr(i))[0] in "LN")
InCa_ALPHANUMERIC_CHAR_SET ==
    LowerCased \cup UpperCased \cup Range(Digits) \cup UncasedLetters
               \cup OtherNumbers

InDia_ALPHANUMERIC_CHAR_SET == InCa_ALPHANUMERIC_CHAR_SET \cup Range(CHAR_FLAGS)

----------------------------------------------------------------------------
(* Python str methods, on sequences of characters                           *)

\* str.lower() / str.upper() of one character.  U+03F4 lower-cases to theta,
\* whose upper case is U+0398: the mapping is not invertible there.
LowerChar(c) ==
    IF c \in Range(UpperLetters) THEN LowerLetters[IndexOf(UpperLetters, c)]
    ELSE IF c \in Range(OtherUpperSeq) THEN OtherLowerSeq[IndexOf(OtherUpperSeq, c)]
    ELSE IF c = "U+03F4" THEN "U+03B8"
    ELSE c

UpperChar(c) ==
    IF c \in Range(LowerLetters) THEN UpperLetters[IndexOf(LowerLetters, c)]
    ELSE IF c \in Range(OtherLowerSeq) THEN OtherUpperSeq[IndexOf(OtherLowerSeq, c)]
    ELSE c

str_lower(s) == [i \in DOMAIN s |-> LowerChar(s[i])]
str_upper(s) == [i \in DOMAIN s |-> UpperChar(s[i])]

\* str.capitalize(): first character upper-cased, the rest lower-cased
str_capitalize(s) ==
    [i \in DOMAIN s |-> IF i = 1 THEN UpperChar(s[1]) ELSE LowerChar(s[i])]

\* str.isupper(): no lower-case character and at least one upper-case one
str_isupper(s) ==
    /\ \A i \in DOMAIN s : s[i] \notin LowerCased
    /\ \E i \in DOMAIN s : s[i] \in UpperCased

\* str.istitle(): upper-case characters only after uncased ones, lower-case
\* characters only after cased ones, and at least one cased character
str_istitle(s) ==
    /\ \E i \in DOMAIN s : s[i] \in LowerCased \cup UpperCased
    /\ \A i \in DOMAIN s :
          LET prev_cased == i > 1 /\ s[i-1] \in LowerCased \cup UpperCased
          IN  /\ s[i] \in UpperCased => ~prev_cased
              /\ s[i] \in LowerCased => prev_cased

SubSeqFrom(s, from, to) == IF from > to THEN <<>> ELSE SubSeq(s, from, to)

\* str.startswith(prefix)
str_startswith(s, prefix) ==
    Len(s) >= Len(prefix) /\ SubSeqFrom(s, 1, Len(prefix)) = prefix

\* the `sub in s` test of two strings
str_contains(s, sub) ==
    \E k \in 0..(Len(s) - Len(sub)) : SubSeqFrom(s, k + 1, k + Len(sub)) = sub

----------------------------------------------------------------------------
(* Unicode normalization                                                    *)

\* Canonical compositions of the model: <<starter, mark, composed>>.
Compositions ==
    { <<"a", "U+0301", "U+00E1">>, <<"A", "U+0301", "U+00C1">>,
      <<"a", "U+030A", "U+00E5">>, <<"A", "U+030A", "U+00C5">>,
      <<"U+00E5", "U+0301", "U+01FB">>, <<"U+00C5", "U+0301", "U+01FA">>,
      <<"c", "U+030C", "U+010D">>, <<"C", "U+030C", "U+010C">>,
      <<"y", "U+0301", "U+00FD">>, <<"Y", "U+0301", "U+00DD">> }

\* unicodedata.normalize('NFD', c) of one character
RECURSIVE NFDChar(_)
NFDChar(c) ==
    IF \E t \in Compositions : t[3] = c
    THEN LET t == CHOOSE t \in Compositions : t[3] = c
         IN  NFDChar(t[1]) \o <<t[2]>>
    ELSE <<c>>

RECURSIVE NFD(_)
NFD(s) == IF s = <<>> THEN <<>> ELSE NFDChar(Head(s)) \o NFD(Tail(s))

\* Canonical composition of a decomposed string.  The three marks have the
\* same combining class, so a mark composes only with the character right
\* before it.
RECURSIVE ComposeLoop(_, _, _)
ComposeLoop(s, i, out) ==
    IF i > Len(s) THEN out
    ELSE IF /\ out # <<>>
            /\ \E t \in Compositions : t[1] = out[Len(out)] /\ t[2] = s[i]
         THEN LET t == CHOOSE t \in Compositions :
                           t[1] = out[Len(out)] /\ t[2] = s[i]
              IN  ComposeLoop(s, i + 1, SubSeqFrom(out, 1, Len(out) - 1) \o <<t[3]>>)
         ELSE ComposeLoop(s, i + 1, Append(out, s[i]))

\* unicodedata.normalize('NFC', s)
NFC(s) == ComposeLoop(NFD(s), 1, <<>>)

----------------------------------------------------------------------------
(* Tokenizer / detokenizer (the same text in both classes, each over its    *)
(* own character set)                                                       *)

\* a test that drops a single space also at the start of the line
KeepRun_AlsoAtStart(token, token_start) == token # <<" ">>

\* the test that appends a closed run to the token list
KeepRun(token, token_start) == token # <<" ">> \/ token_start = 0

\* The for-loop of _tokenize.  Python positions are 0-based: pos0 is the loop
\* variable, token_start the 0-based start of the open run.
RECURSIVE TokenizeLoop(_, _, _, _, _)
TokenizeLoop(ALNUM, t, pos0, token_start, ret) ==
    IF pos0 >= Len(t)
    THEN Append(ret, SubSeqFrom(t, token_start + 1, Len(t)))
    ELSE IF (t[pos0 + 1] \in ALNUM) # (t[pos0] \in ALNUM)
         THEN LET token == SubSeqFrom(t, token_start + 1, pos0)
                  ret2  == IF KeepRun(token, token_start)
                           THEN Append(ret, token) ELSE ret
              IN  TokenizeLoop(ALNUM, t, pos0 + 1, pos0, ret2)
         ELSE TokenizeLoop(ALNUM, t, pos0 + 1, token_start, ret)

Tokenize(ALNUM, t) ==
    IF t = <<>> THEN <<>> ELSE TokenizeLoop(ALNUM, t, 1, 0, <<>>)

\* the test that puts a space before token i (1-based)
SpaceBefore(ALNUM, toks, i) ==
    i > 1 /\ toks[i-1][1] \in ALNUM /\ toks[i][1] \in ALNUM

RECURSIVE DetokenizeLoop(_, _, _, _)
DetokenizeLoop(ALNUM, toks, i, ret) ==
    IF i > Len(toks) THEN ret
    ELSE LET sp == IF SpaceBefore(ALNUM, toks, i) THEN <<" ">> ELSE <<>>
         IN  DetokenizeLoop(ALNUM, toks, i + 1, ret \o sp \o toks[i])

Detokenize(ALNUM, toks) == DetokenizeLoop(ALNUM, toks, 1, <<>>)

InCa_tokenize(t) == Tokenize(InCa_ALPHANUMERIC_CHAR_SET, t)
InCa_detokenize(toks) == Detokenize(InCa_ALPHANUMERIC_CHAR_SET, toks)
InDia_tokenize(t) == Tokenize(InDia_ALPHANUMERIC_CHAR_SET, t)
InDia_detokenize(toks) == Detokenize(InDia_ALPHANUMERIC_CHAR_SET, toks)

----------------------------------------------------------------------------
(* InCa: the case codec                                                     *)

None == <<>>        \* Python's None / the empty register (no token is empty)

\* dict.get(key): the value, or None
dict_get(d, key) == IF key \in DOMAIN d THEN d[key] ELSE None

\* the flag glued to the base, without the space between them
Flagged_NoSpace(flag, lc_token) == flag \o lc_token

\* f"{flag} {lc_token}"
Flagged(flag, lc_token) == flag \o <<" ">> \o lc_token

\* an encoder that never asks the vocabulary
InCa_encode_token_NoVocab(token, is_first) ==
    LET lc_token == str_lower(token)
    IN  IF token = lc_token
        THEN IF is_first /\ token # str_capitalize(token)
             THEN Flagged(config.flags.lower, lc_token)
             ELSE lc_token
        ELSE IF str_isupper(token)
        THEN Flagged(config.flags.upper, lc_token)
        ELSE IF token = str_capitalize(token)
        THEN IF is_first THEN lc_token
             ELSE Flagged(config.flags.title, lc_token)
        ELSE token

\* InCa._encode_token(token, is_first)
InCa_encode_token(token, is_first) ==
    LET lc_token   == str_lower(token)
        vocab_form == dict_get(vocab, lc_token)
        generic ==
            IF token = lc_token
            THEN IF is_first
                 THEN IF token = str_capitalize(token)
                      THEN lc_token
                      ELSE Flagged(config.flags.lower, lc_token)
                 ELSE lc_token
            ELSE IF str_isupper(token)
            THEN Flagged(config.flags.upper, lc_token)
            ELSE IF token = str_capitalize(token)
            THEN IF is_first THEN lc_token
                 ELSE Flagged(config.flags.title, lc_token)
            ELSE token
    IN  IF vocab_form # None
        THEN IF token = vocab_form THEN lc_token
             ELSE IF is_first
                  THEN IF token = str_capitalize(token)
                       THEN Flagged(config.flags.title, lc_token)
                       ELSE generic
                  ELSE IF token = lc_token
                       THEN Flagged(config.flags.lower, lc_token)
                       ELSE generic
        ELSE generic

\* InCa._encode_token_naive(token, mode='favor-upper')
InCa_encode_token_naive(token) ==
    LET lc_token == str_lower(token)
    IN  IF token = lc_token THEN token
        ELSE IF Len(token) = 1
        THEN IF str_isupper(token)
             THEN Flagged(config.flags.upper, lc_token)
             ELSE token
        ELSE IF str_isupper(token) THEN Flagged(config.flags.upper, lc_token)
        ELSE IF str_istitle(token) THEN Flagged(config.flags.title, lc_token)
        ELSE token

\* the all-caps test of _encode_line
IsAllcapsLine(line) == str_isupper(line) /\ \E i \in DOMAIN line : line[i] = " "

\* The loop of _encode_line over the tokens; was_first is the local
\* was_first_alphanum_token.
RECURSIVE InCa_encode_loop(_, _, _, _, _)
InCa_encode_loop(toks, i, naive_encoding, was_first, res) ==
    IF i > Len(toks) THEN res
    ELSE LET token == toks[i]
         IN  IF naive_encoding
             THEN InCa_encode_loop(toks, i + 1, naive_encoding, was_first,
                                   Append(res, InCa_encode_token_naive(token)))
             ELSE IF token[1] \notin InCa_ALPHANUMERIC_CHAR_SET
             THEN InCa_encode_loop(toks, i + 1, naive_encoding, was_first,
                                   Append(res, token))
             ELSE IF ~config.include_sent_initial
             THEN IF ~was_first
                  THEN InCa_encode_loop(toks, i + 1, naive_encoding, TRUE,
                                        Append(res, InCa_encode_token(token, TRUE)))
                  ELSE InCa_encode_loop(toks, i + 1, naive_encoding, was_first,
                                        Append(res, InCa_encode_token(token, FALSE)))
             ELSE InCa_encode_loop(toks, i + 1, naive_encoding, was_first,
                                   Append(res, InCa_encode_token(token, FALSE)))

\* InCa._encode_line(line, naive_encoding)
InCa_encode_line(line0, naive_encoding) ==
    LET line == NFC(line0)
    IN  IF ~config.include_allcaps /\ IsAllcapsLine(line)
        THEN Flagged(config.flags.allcaps, str_lower(line))
        ELSE InCa_detokenize(
                 InCa_encode_loop(InCa_tokenize(line), 1, naive_encoding, FALSE, <<>>))

\* registers that keep what the previous line left in them
InCa_decode_start_Keep ==
    [action |-> pending, was_first |-> was_first_alphanum_token,
     result |-> <<>>, raised |-> FALSE]

\* The decoder's loop state: the locals action, was_first_alphanum_token
\* and result of _decode_line; raised is set when the loop body raises.
InCa_decode_start ==
    [action |-> None, was_first |-> FALSE, result |-> <<>>, raised |-> FALSE]

\* a flag test that knows the UPPER flag only
InCa_is_flag_token_UpperOnly(token) == token = config.flags.upper

\* the test `token in f"{upper}{title}{lower}"`
InCa_is_flag_token(token) ==
    str_contains(config.flags.upper \o config.flags.title \o config.flags.lower,
                 token)

\* a decoder that asks the vocabulary before the pending flag
InCa_decode_step_VocabFirst(st, token, naive_decoding) ==
    IF token[1] \notin InCa_ALPHANUMERIC_CHAR_SET
    THEN [st EXCEPT !.result = Append(@, token)]
    ELSE IF str_contains(config.flags.upper \o config.flags.title
                            \o config.flags.lower, token)
    THEN [st EXCEPT !.action = token]
    ELSE LET vocab_form == dict_get(vocab, token)
             out ==
                IF ~naive_decoding /\ vocab_form # None THEN vocab_form
                ELSE IF st.action = config.flags.upper THEN str_upper(token)
                ELSE IF st.action = config.flags.title THEN str_capitalize(token)
                ELSE IF st.action = config.flags.lower THEN str_lower(token)
                ELSE IF /\ ~naive_decoding
                        /\ ~config.include_sent_initial
                        /\ ~st.was_first
                        /\ token = str_lower(token)
                     THEN str_capitalize(token)
                     ELSE token
         IN  [st EXCEPT !.action = None, !.was_first = TRUE,
                        !.result = Append(@, out)]

\* One pass of the body of _decode_line's for-loop.
InCa_decode_step(st, token, naive_decoding) ==
    IF token[1] \notin InCa_ALPHANUMERIC_CHAR_SET
    THEN [st EXCEPT !.result = Append(@, token)]
    ELSE IF InCa_is_flag_token(token)
    THEN [st EXCEPT !.action = token]
    ELSE LET vocab_form == dict_get(vocab, token)
             out ==
                IF st.action = config.flags.upper THEN str_upper(token)
                ELSE IF st.action = config.flags.title THEN str_capitalize(token)
                ELSE IF st.action = config.flags.lower THEN str_lower(token)
                ELSE IF ~naive_decoding
                THEN IF vocab_form # None THEN vocab_form
                     ELSE IF /\ ~config.include_sent_initial
                             /\ ~st.was_first
                             /\ token = str_lower(token)
                          THEN str_capitalize(token)
                          ELSE token
                ELSE token
         IN  [st EXCEPT !.action = None, !.was_first = TRUE,
                        !.result = Append(@, out)]

RECURSIVE InCa_decode_loop(_, _, _, _)
InCa_decode_loop(toks, i, st, naive_decoding) ==
    IF i > Len(toks) THEN st
    ELSE InCa_decode_loop(toks, i + 1,
                          InCa_decode_step(st, toks[i], naive_decoding),
                          naive_decoding)

\* the all-caps test of _decode_line
HasAllcapsPrefix(line) ==
    ~config.include_allcaps
        /\ str_startswith(line, config.flags.allcaps \o <<" ">>)

\* InCa._decode_line(line, naive_decoding)
InCa_decode_line(line, naive_decoding) ==
    IF HasAllcapsPrefix(line)
    THEN NFC(str_upper(SubSeqFrom(line, 3, Len(line))))
    ELSE NFC(InCa_detokenize(
                 InCa_decode_loop(InCa_tokenize(line), 1, InCa_decode_start,
                                  naive_decoding).result))

----------------------------------------------------------------------------
(* InDia: the diacritic codec                                               *)

\* what a method returns when it raises
Raised == <<"<exception>">>

\* unicodedata.name(c) of the combining marks; the name of any other
\* character of the model is no key of NAME2FLAG and is written as the
\* character itself
UnicodeName(c) ==
    IF c = "U+0301" THEN "COMBINING ACUTE ACCENT"
    ELSE IF c = "U+030C" THEN "COMBINING CARON"
    ELSE IF c = "U+030A" THEN "COMBINING RING ABOVE"
    ELSE c

\* unicodedata.lookup(name)
UnicodeLookup(name) == CHOOSE c \in CombiningMarks : UnicodeName(c) = name

KEY_FLAG  == "U+A550"
DICT_FLAG == "U+A551"
BARE_FLAG == "U+24FF"
OOV_FLAG  == "U+24EA"

\* InDia._create_flag_set(diacr_list), with MIN_COUNT and ORDER_MODE added by
\* train_vocab
InDia_create_flag_set(diacr_list, min_count) ==
    LET names == Range(diacr_list) \cup {"OOV", "BARE"}
        name2flag == [n \in names |->
                        IF n = "OOV" THEN OOV_FLAG
                        ELSE IF n = "BARE" THEN BARE_FLAG
                        ELSE CHAR_FLAGS[IndexOf(diacr_list, n)]]
        flags == {name2flag[n] : n \in names}
    IN  [UPPER_LEVEL |-> [KEY_FLAG |-> KEY_FLAG, DICT_FLAG |-> DICT_FLAG],
         NAME2FLAG |-> name2flag,
         FLAG2NAME |-> [f \in flags |-> CHOOSE n \in names : name2flag[n] = f],
         MIN_COUNT |-> min_count,
         ORDER_MODE |-> "freq"]

\* the default diacr_list of train_vocab
DefaultDiacrList ==
    <<"COMBINING ACUTE ACCENT", "COMBINING CARON", "COMBINING RING ABOVE">>

RECURSIVE SelectSeq2(_, _)
SelectSeq2(s, S) ==
    IF s = <<>> THEN <<>>
    ELSE (IF Head(s) \in S THEN <<Head(s)>> ELSE <<>>) \o SelectSeq2(Tail(s), S)

\* InDia._dediacritize(s)
InDia_dediacritize(s) ==
    LET d == NFD(s)
        kept == {c \in Range(d) : UnicodeName(c) \notin DOMAIN config.NAME2FLAG}
    IN  NFC(SelectSeq2(d, kept))

\* The inner loop of _detect_diacr over the decomposition of one character:
\* the flag of the last configured mark, or None.
RECURSIVE LastConfiguredMark(_, _, _)
LastConfiguredMark(split_char, j, found) ==
    IF j > Len(split_char) THEN found
    ELSE LastConfiguredMark(split_char, j + 1,
            IF UnicodeName(split_char[j]) \in DOMAIN config.NAME2FLAG
            THEN <<config.NAME2FLAG[UnicodeName(split_char[j])]>>
            ELSE found)

\* InDia._detect_diacr(w): a dict from 0-based offset to flag
InDia_detect_diacr(w) ==
    LET flagAt(i) == LastConfiguredMark(NFDChar(w[i]), 1, None)
        keys == {i \in DOMAIN w :
                    Len(NFDChar(w[i])) > 1 /\ flagAt(i) # None}
    IN  [k \in {i - 1 : i \in keys} |-> flagAt(k + 1)[1]]

\* sorted(keys)
RECURSIVE Sorted(_)
Sorted(S) ==
    IF S = {} THEN <<>>
    ELSE LET m == CHOOSE x \in S : \A y \in S : x <= y
         IN  <<m>> \o Sorted(S \ {m})

\* str(k) of a non-negative integer
RECURSIVE IntToStr(_)
IntToStr(k) ==
    IF k < 10 THEN <<Digits[k + 1]>>
    ELSE IntToStr(k \div 10) \o <<Digits[(k % 10) + 1]>>

\* int(s): defined for a non-empty string of digits, raises otherwise
IsIntLiteral(s) == s # <<>> /\ \A i \in DOMAIN s : s[i] \in Range(Digits)

RECURSIVE StrToInt(_)
StrToInt(s) ==
    IF s = <<>> THEN 0
    ELSE 10 * StrToInt(SubSeqFrom(s, 1, Len(s) - 1))
            + (IndexOf(Digits, s[Len(s)]) - 1)

\* str.split(sep) with a one-character separator
RECURSIVE SplitLoop(_, _, _, _, _)
SplitLoop(s, sep, i, cur, out) ==
    IF i > Len(s) THEN Append(out, cur)
    ELSE IF s[i] = sep THEN SplitLoop(s, sep, i + 1, <<>>, Append(out, cur))
    ELSE SplitLoop(s, sep, i + 1, Append(cur, s[i]), out)

str_split(s, sep) == SplitLoop(s, sep, 1, <<>>, <<>>)

\* sep.join(parts)
RECURSIVE JoinLoop(_, _, _, _)
JoinLoop(parts, sep, i, out) ==
    IF i > Len(parts) THEN out
    ELSE JoinLoop(parts, sep, i + 1,
                  IF i = 1 THEN parts[1] ELSE out \o sep \o parts[i])

str_join(sep, parts) == JoinLoop(parts, sep, 1, <<>>)

\* InDia._flag_processing(input_data, mode='encode')
InDia_flag_processing_encode(input_data) ==
    LET keys == Sorted(DOMAIN input_data)
        values == [i \in DOMAIN keys |-> input_data[keys[i]]]
        encoded_keys == str_join(<<config.UPPER_LEVEL.KEY_FLAG>>,
                                 [i \in DOMAIN keys |-> IntToStr(keys[i])])
    IN  <<config.UPPER_LEVEL.DICT_FLAG>> \o encoded_keys
            \o <<config.UPPER_LEVEL.DICT_FLAG>> \o values

\* whether _flag_processing(input_data, mode='decode') raises: the split
\* must give exactly two parts after the first, and every key must be an
\* integer literal
InDia_flag_processing_raises(input_data) ==
    LET parts == str_split(input_data, config.UPPER_LEVEL.DICT_FLAG)
    IN  \/ Len(parts) # 3
        \/ \E k \in Range(str_split(parts[2], config.UPPER_LEVEL.KEY_FLAG)) :
               ~IsIntLiteral(k)

\* the dict built from zip(keys, values): a later pair overrides an earlier
\* one with the same key
RECURSIVE ZipDict(_, _, _, _)
ZipDict(keys, values, i, d) ==
    IF i > Len(keys) \/ i > Len(values) THEN d
    ELSE ZipDict(keys, values, i + 1,
                 [k \in DOMAIN d \cup {keys[i]} |->
                     IF k = keys[i] THEN values[i] ELSE d[k]])

EmptyDict == [k \in {} |-> ""]

\* a parser that reads the last digit of each offset only
InDia_flag_processing_decode_LastDigit(input_data) ==
    LET parts == str_split(input_data, config.UPPER_LEVEL.DICT_FLAG)
        enc_keys == str_split(parts[2], config.UPPER_LEVEL.KEY_FLAG)
        keys == [i \in DOMAIN enc_keys |->
                    StrToInt(<<enc_keys[i][Len(enc_keys[i])]>>)]
    IN  ZipDict(keys, parts[3], 1, EmptyDict)

\* InDia._flag_processing(input_data, mode='decode'), where it does not raise
InDia_flag_processing_decode(input_data) ==
    LET parts == str_split(input_data, config.UPPER_LEVEL.DICT_FLAG)
        enc_keys == str_split(parts[2], config.UPPER_LEVEL.KEY_FLAG)
        keys == [i \in DOMAIN enc_keys |-> StrToInt(enc_keys[i])]
    IN  ZipDict(keys, parts[3], 1, EmptyDict)

\* an encoder that leaves out the offsets that only the predicted form
\* has a mark at
InDia_encode_token_NoBare(input_token, mostfreq_token) ==
    LET input_diacr    == InDia_detect_diacr(input_token)
        mostfreq_diacr == InDia_detect_diacr(mostfreq_token)
        encode_diacr ==
            [k \in {k \in DOMAIN input_diacr :
                        \/ k \notin DOMAIN mostfreq_diacr
                        \/ input_diacr[k] # mostfreq_diacr[k]} |->
                input_diacr[k]]
    IN  IF DOMAIN encode_diacr = {}
        THEN InDia_dediacritize(input_token)
        ELSE InDia_flag_processing_encode(encode_diacr) \o <<" ">>
                \o InDia_dediacritize(input_token)

\* InDia._encode_token(input_token, mostfreq_token)
InDia_encode_token(input_token, mostfreq_token) ==
    LET input_diacr    == InDia_detect_diacr(input_token)
        mostfreq_diacr == InDia_detect_diacr(mostfreq_token)
        all_keys == DOMAIN input_diacr \cup DOMAIN mostfreq_diacr
        differs(k) ==
            \/ k \notin DOMAIN input_diacr
            \/ k \notin DOMAIN mostfreq_diacr
            \/ input_diacr[k] # mostfreq_diacr[k]
        encode_diacr ==
            [k \in {k \in all_keys : differs(k)} |->
                IF k \in DOMAIN input_diacr THEN input_diacr[k]
                ELSE config.NAME2FLAG["BARE"]]
    IN  IF DOMAIN encode_diacr = {}
        THEN InDia_dediacritize(input_token)
        ELSE InDia_flag_processing_encode(encode_diacr) \o <<" ">>
                \o InDia_dediacritize(input_token)

\* What the loop of InDia._encode_line appends for one token.
InDia_encode_line_body(token) ==
    LET base == InDia_dediacritize(token)
        mostfreq_form == IF base \in DOMAIN vocab THEN vocab[base] ELSE <<>>
    IN  IF token[1] \in InDia_ALPHANUMERIC_CHAR_SET
        THEN IF mostfreq_form = token THEN base
             ELSE InDia_encode_token(token, mostfreq_form)
        ELSE token

\* The loop of InDia._encode_line over the tokens.
RECURSIVE InDia_encode_loop(_, _, _)
InDia_encode_loop(toks, i, res) ==
    IF i > Len(toks) THEN res
    ELSE InDia_encode_loop(toks, i + 1,
                           Append(res, InDia_encode_line_body(toks[i])))

\* InDia._encode_line(line)
InDia_encode_line(line) ==
    InDia_detokenize(InDia_encode_loop(InDia_tokenize(line), 1, <<>>))

\* a decoder that restores from the pending flag token alone
InDia_decode_dict_PendingOnly(diacritization, mostfreq_diacr) ==
    LET kept == {k \in DOMAIN diacritization :
                    diacritization[k] # config.NAME2FLAG["BARE"]}
    IN  [k \in kept |-> diacritization[k]]

\* the decode_dict of _decode_token: the pending value unless it is BARE,
\* else the predicted value where the pending dict has no entry
InDia_decode_dict(diacritization, mostfreq_diacr) ==
    LET all_keys == DOMAIN diacritization \cup DOMAIN mostfreq_diacr
        kept == {k \in all_keys :
                    IF k \in DOMAIN diacritization
                    THEN diacritization[k] # config.NAME2FLAG["BARE"]
                    ELSE TRUE}
    IN  [k \in kept |-> IF k \in DOMAIN diacritization
                        THEN diacritization[k] ELSE mostfreq_diacr[k]]

\* One pass of the for-loop of _restore_diacr, for offset diacr_id
\* (0-based): an offset past the end of the word is skipped (the except
\* branch), an OOV glyph leaves the word as it is.
InDia_restore_one(final_w, diacr_id, flag) ==
    LET diacr_name == config.FLAG2NAME[flag]
    IN  IF diacr_name = "OOV" \/ diacr_id >= Len(final_w) THEN final_w
        ELSE SubSeqFrom(final_w, 1, diacr_id)
                \o NFC(<<final_w[diacr_id + 1], UnicodeLookup(diacr_name)>>)
                \o SubSeqFrom(final_w, diacr_id + 2, Len(final_w))

\* The for-loop of _restore_diacr; the keys of the dict are visited in
\* ascending order (the order of a set of small integers).
RECURSIVE InDia_restore_loop(_, _, _, _)
InDia_restore_loop(final_w, diacr_dict, keys, i) ==
    IF i > Len(keys) THEN final_w
    ELSE InDia_restore_loop(
            InDia_restore_one(final_w, keys[i], diacr_dict[keys[i]]),
            diacr_dict, keys, i + 1)

\* InDia._restore_diacr(w, diacr_dict); raises (KeyError) on a glyph that is
\* no key of FLAG2NAME
InDia_restore_diacr(w, diacr_dict) ==
    IF \E k \in DOMAIN diacr_dict : diacr_dict[k] \notin DOMAIN config.FLAG2NAME
    THEN Raised
    ELSE InDia_restore_loop(w, diacr_dict, Sorted(DOMAIN diacr_dict), 1)

\* a decoder for which a BARE entry of the pending delta falls back to the
\* predicted mark
InDia_decode_token_BareFallsBack(input_base, diacritization, mostfreq_token) ==
    IF diacritization # None /\ InDia_flag_processing_raises(diacritization)
    THEN Raised
    ELSE LET d == IF diacritization # None
                  THEN InDia_flag_processing_decode(diacritization)
                  ELSE EmptyDict
             p == InDia_detect_diacr(mostfreq_token)
             shown == {k \in DOMAIN d : d[k] # config.NAME2FLAG["BARE"]}
         IN  InDia_restore_diacr(input_base,
                [k \in shown \cup DOMAIN p |->
                    IF k \in shown THEN d[k] ELSE p[k]])

\* InDia._decode_token(input_base, diacritization, mostfreq_token);
\* diacritization is the pending flag token, or None for {}
InDia_decode_token(input_base, diacritization, mostfreq_token) ==
    IF diacritization # None /\ InDia_flag_processing_raises(diacritization)
    THEN Raised
    ELSE LET d == IF diacritization # None
                  THEN InDia_flag_processing_decode(diacritization)
                  ELSE EmptyDict
         IN  InDia_restore_diacr(input_base,
                InDia_decode_dict(d, InDia_detect_diacr(mostfreq_token)))

\* The decoder's loop state: the locals result and diacr_id (field action)
\* of _decode_line; raised is set when the loop body raises.
InDia_decode_start ==
    [action |-> None, was_first |-> FALSE, result |-> <<>>, raised |-> FALSE]

\* the test token.startswith(DICT_FLAG)
InDia_is_flag_token(token) == token[1] = config.UPPER_LEVEL.DICT_FLAG

\* One pass of the body of _decode_line's for-loop.
InDia_decode_step(st, token) ==
    IF token[1] \notin InDia_ALPHANUMERIC_CHAR_SET
    THEN [st EXCEPT !.result = Append(@, token)]
    ELSE IF InDia_is_flag_token(token)
    THEN [st EXCEPT !.action = token]
    ELSE LET mostfreq_form == IF token \in DOMAIN vocab THEN vocab[token] ELSE <<>>
             decoded_token == InDia_decode_token(token, st.action, mostfreq_form)
         IN  IF decoded_token = Raised
             THEN [st EXCEPT !.raised = TRUE]
             ELSE [st EXCEPT !.action = None,
                             !.result = Append(@, decoded_token)]

RECURSIVE InDia_decode_loop(_, _, _)
InDia_decode_loop(toks, i, st) ==
    IF i > Len(toks) \/ st.raised THEN st
    ELSE InDia_decode_loop(toks, i + 1, InDia_decode_step(st, toks[i]))

\* InDia._decode_line(line)
InDia_decode_line(line) ==
    LET st == InDia_decode_loop(InDia_tokenize(line), 1, InDia_decode_start)
    IN  IF st.raised THEN Raised ELSE InDia_detokenize(st.result)

----------------------------------------------------------------------------
(* Bounded inputs                                                           *)

RECURSIVE SeqsUpTo(_, _)
SeqsUpTo(S, n) ==
    IF n = 0 THEN {<<>>}
    ELSE LET P == SeqsUpTo(S, n - 1)
         IN  P \cup {Append(s, c) : s \in {p \in P : Len(p) = n - 1}, c \in S}

\* Characters of the tokenizer's test lines: a letter, a digit, the space,
\* a punctuation sign, a combining mark (a separator); no flag glyph.
TokChars == {"a", "1", " ", ".", "U+0301"}

TokLines == SeqsUpTo(TokChars, MaxTokLen)

----------------------------------------------------------------------------
(* Specification SpecTok: a caller tokenizes a line and detokenizes the     *)
(* token list, with either class.                                           *)

Idle == [cls |-> "none"]

InitTok ==
    /\ cls \in {"InCa", "InDia"}
    /\ pc = "start"
    /\ text \in TokLines
    /\ tokens = <<>>
    /\ decoded = <<>>
    /\ config = Idle /\ vocab = Idle /\ naive = FALSE /\ encoded = <<>>
    /\ idx = 0 /\ pending = Idle /\ was_first_alphanum_token = FALSE
    /\ result = <<>> /\ counts = Idle /\ decoded_string = <<>>

TokTokenize ==
    /\ pc = "start"
    /\ tokens' = IF cls = "InCa" THEN InCa_tokenize(text) ELSE InDia_tokenize(text)
    /\ pc' = "tokenized"
    /\ UNCHANGED <<cls, config, vocab, naive, text, encoded, decoded, decoded_string, idx,
                   pending, was_first_alphanum_token, result, counts>>

TokDetokenize ==
    /\ pc = "tokenized"
    /\ decoded' = IF cls = "InCa" THEN InCa_detokenize(tokens)
                                  ELSE InDia_detokenize(tokens)
    /\ pc' = "done"
    /\ UNCHANGED <<cls, config, vocab, naive, text, tokens, encoded, decoded_string, idx,
                   pending, was_first_alphanum_token, result, counts>>

NextTok == TokTokenize \/ TokDetokenize

SpecTok == InitTok /\ [][NextTok]_vars

----------------------------------------------------------------------------
(* C1: for both tokenizers and every line without flag glyph,               *)
(* _detokenize(_tokenize(L)) = L (empty line, separator-only lines, leading *)
(* or trailing space and runs of spaces included).                          *)
C1_TokenizerRoundTrip == pc = "done" => decoded = text

\* a line with a leading space, a run of two spaces between words and a
\* trailing space has been tokenized (the single spaces are kept only at the
\* start and the end) and put together again
C1_Witness ==
    /\ pc = "done"
    /\ text = <<" ", "a", " ", " ", "1">>
    /\ tokens = << <<" ">>, <<"a">>, <<" ", " ">>, <<"1">> >>

----------------------------------------------------------------------------
(* Specification SpecCase: a caller encodes a line with InCa._encode_line   *)
(* and decodes the result with InCa._decode_line, under a fixed vocabulary  *)
(* and configuration.                                                       *)

\* the default flags of train_vocab
DefaultFlags == [upper |-> <<"U+A505">>, title |-> <<"U+A506">>,
                 lower |-> <<"U+A52A">>, allcaps |-> <<"U+A52B">>]

CaseConfigs ==
    [min_count : {1}, flags : {DefaultFlags},
     include_allcaps : BOOLEAN, include_sent_initial : BOOLEAN]

EmptyVocab == [b \in {} |-> <<>>]

CaseVocabs ==
    { EmptyVocab,
      [b \in {<<"a">>, <<"a", "a">>} |->
            IF b = <<"a">> THEN <<"A">> ELSE <<"A", "a">>],
      [b \in {<<"a", "a">>} |-> <<"A", "A">>] }

\* Characters of the case codec's test lines: a cased letter in both cases,
\* a digit, the space, an upper-case letter whose lower case has another
\* upper case, and a combining mark (a separator).  No flag glyph.
CaseChars == {"a", "A", "1", " ", "U+03F4", "U+0301"}

CaseLines == SeqsUpTo(CaseChars, MaxCaseLen)

\* The example of the documentation: vocabulary {"berlin": "Berlin"}, flags
\* upper=U, title=T, lower=L, both inclusion switches off.
ExampleFlags == [upper |-> <<"U">>, title |-> <<"T">>, lower |-> <<"L">>,
                 allcaps |-> <<"U+A52B">>]
ExampleConfig == [min_count |-> 1, flags |-> ExampleFlags,
                  include_allcaps |-> FALSE, include_sent_initial |-> FALSE]
ExampleVocab == [b \in {<<"b","e","r","l","i","n">>} |->
                    <<"B","e","r","l","i","n">>]
ExampleLine ==
    <<"i"," ","l","i","v","e"," ","i","n"," ","b","e","r","l","i","n"," ",".">>
ExampleEncoded ==
    <<"L"," ","i"," ","l","i","v","e"," ","i","n"," ",
      "L"," ","b","e","r","l","i","n"," ",".">>

InitCase ==
    /\ cls = "InCa"
    /\ pc = "start"
    /\ \/ /\ config \in CaseConfigs
          /\ vocab \in CaseVocabs
          /\ naive \in BOOLEAN
          /\ text \in CaseLines
       \/ /\ config = ExampleConfig
          /\ vocab = ExampleVocab
          /\ naive = FALSE
          /\ text = ExampleLine
    /\ encoded = <<>> /\ decoded = <<>> /\ tokens = <<>>
    /\ idx = 0 /\ pending = None /\ was_first_alphanum_token = FALSE
    /\ result = <<>> /\ counts = Idle /\ decoded_string = <<>>

\* encoded_line = self._encode_line(line, naive_encoding=naive_encoding)
CaseEncode ==
    /\ pc = "start"
    /\ encoded' = InCa_encode_line(text, naive)
    /\ pc' = "encoded"
    /\ UNCHANGED <<cls, config, vocab, naive, text, tokens, decoded, decoded_string, idx,
                   pending, was_first_alphanum_token, result, counts>>

\* decoded_line = self._decode_line(line, naive_decoding=naive_decoding)
CaseDecode ==
    /\ pc = "encoded"
    /\ decoded' = InCa_decode_line(encoded, naive)
    /\ pc' = "done"
    /\ UNCHANGED <<cls, config, vocab, naive, text, tokens, encoded, decoded_string, idx,
                   pending, was_first_alphanum_token, result, counts>>

NextCase == CaseEncode \/ CaseDecode

SpecCase == InitCase /\ [][NextCase]_vars

\* the word-forming tokens of a line
WordTokens(line) ==
    {t \in Range(InCa_tokenize(line)) : t[1] \in InCa_ALPHANUMERIC_CHAR_SET}

\* every word-forming token is all-lowercase or uncased, all-uppercase or
\* capitalized
UnambiguousCasing(line) ==
    \A t \in WordTokens(line) :
        t = str_lower(t) \/ str_isupper(t) \/ t = str_capitalize(t)

\* the case mappings give every cased token back from its lower-case base
InvertibleCasing(line) ==
    \A t \in WordTokens(line) :
        \/ t = str_lower(t)
        \/ str_isupper(t) /\ str_upper(str_lower(t)) = t
        \/ t = str_capitalize(t) /\ str_capitalize(str_lower(t)) = t

(* C2 as stated: for every line of unambiguous casing, in both modes and    *)
(* for every setting of the two inclusion switches,                         *)
(* _decode_line(_encode_line(L)) = L.                                       *)
C2_RoundTripAsStated ==
    (pc = "done" /\ config.flags = DefaultFlags /\ UnambiguousCasing(text))
        => decoded = text

(* C2, amended: the round trip holds for the lines of unambiguous casing    *)
(* that are in composed normal form (NFC) and whose cased tokens the case   *)
(* mappings give back from their lower-case base.                           *)
C2_RoundTrip ==
    (pc = "done" /\ config.flags = DefaultFlags /\ UnambiguousCasing(text)
        /\ NFC(text) = text /\ InvertibleCasing(text))
        => decoded = text

\* a line with an upper-case word and a capitalized word that is not the
\* first one has been encoded with two flags in vocabulary-driven mode and
\* decoded
C2_Witness ==
    /\ pc = "done"
    /\ ~naive /\ config.include_allcaps /\ ~config.include_sent_initial
    /\ vocab = EmptyVocab
    /\ text = <<"A", " ", "A", "a">>
    /\ encoded = <<"U+A505", " ", "a", " ", "U+A506", " ", "a", "a">>
    /\ decoded = text

\* the example's decoder input is the example's encoded line
ExampleDecoded == pc = "done" /\ config = ExampleConfig /\ vocab = ExampleVocab
                      /\ ~naive /\ encoded = ExampleEncoded

(* C4 as stated: with the example's vocabulary and flags, decoding          *)
(* "L i live in L berlin ." gives "i live in Berlin .".                     *)
C4_DecodeExampleAsStated ==
    ExampleDecoded =>
        decoded = <<"i"," ","l","i","v","e"," ","i","n"," ",
                    "B","e","r","l","i","n"," ",".">>

(* C4, amended: decoding "L i live in L berlin ." gives                     *)
(* "i live in berlin .", the line that was encoded: the LOWER flag before   *)
(* "berlin" overrides the vocabulary form "Berlin".                         *)
C4_DecodeExample == ExampleDecoded => decoded = ExampleLine

C4_Witness == ExampleDecoded /\ decoded = ExampleLine

(* C5: with the example's vocabulary and flags, vocabulary-driven encoding  *)
(* of "i live in berlin ." gives exactly "L i live in L berlin .".          *)
C5_EncodeExample ==
    (pc # "start" /\ config = ExampleConfig /\ vocab = ExampleVocab
        /\ ~naive /\ text = ExampleLine)
        => encoded = ExampleEncoded

C5_Witness ==
    /\ pc = "encoded" /\ config = ExampleConfig /\ vocab = ExampleVocab
    /\ text = ExampleLine /\ encoded = ExampleEncoded

\* the number of word-forming tokens of a line
NumWordTokens(line) ==
    LET toks == InCa_tokenize(line)
    IN  Cardinality({i \in DOMAIN toks : toks[i][1] \in InCa_ALPHANUMERIC_CHAR_SET})

\* the ALLCAPS flag, one space and the lower-cased (normalized) line
AllcapsForm(line) == Flagged(config.flags.allcaps, str_lower(NFC(line)))

(* C13: when include_allcaps is false, an upper-case line with at least two *)
(* word-forming tokens, whatever separates them, is encoded as the ALLCAPS  *)
(* flag, one space and the lower-cased line; an upper-case line with one    *)
(* word is not.                                                             *)
C13_AllcapsShortcut ==
    (pc # "start" /\ ~config.include_allcaps /\ config.flags = DefaultFlags
        /\ str_isupper(NFC(text)))
        => /\ NumWordTokens(NFC(text)) >= 2 => encoded = AllcapsForm(text)
           /\ NumWordTokens(NFC(text)) = 1 => encoded # AllcapsForm(text)

\* what the code does: the shortcut is taken exactly for the upper-case
\* lines that contain a space character
C13_AllcapsShortcutOnSpace ==
    (pc # "start" /\ ~config.include_allcaps /\ config.flags = DefaultFlags)
        => (encoded = AllcapsForm(text)
                <=> (str_isupper(NFC(text)) /\ " " \in Range(NFC(text))))

----------------------------------------------------------------------------
(* Specification SpecDia: a caller encodes a line with InDia._encode_line   *)
(* and decodes the result with InDia._decode_line, under a fixed vocabulary *)
(* and the configuration of the default (Czech) diacritic list.             *)

DiaConfigs == { InDia_create_flag_set(DefaultDiacrList, 1) }

\* "cerny" and its vocabulary form, c-caron e r n y-acute
Cerny == <<"c", "e", "r", "n", "y">>
CernyForm == <<"U+010D", "e", "r", "n", "U+00FD">>

DiaVocabs ==
    { EmptyVocab,
      [b \in {<<"a">>} |-> <<"U+00E1">>],
      [b \in {<<"a", "a">>} |-> <<"a", "U+00E5">>],
      [b \in {Cerny} |-> CernyForm] }

\* Characters of the diacritic codec's test lines: a letter bare, with one
\* configured mark (acute; ring), with two configured marks (ring and
\* acute), a digit, the space and a punctuation sign.  No flag glyph.
DiaChars == {"a", "U+00E1", "U+00E5", "U+01FB", "1", " ", "."}

DiaLines == SeqsUpTo(DiaChars, MaxDiaLen) \cup {Cerny, CernyForm}

InitDia ==
    /\ cls = "InDia"
    /\ pc = "start"
    /\ config \in DiaConfigs
    /\ vocab \in DiaVocabs
    /\ naive = FALSE
    /\ text \in DiaLines
    /\ encoded = <<>> /\ decoded = <<>> /\ tokens = <<>>
    /\ idx = 0 /\ pending = None /\ was_first_alphanum_token = FALSE
    /\ result = <<>> /\ counts = Idle /\ decoded_string = <<>>

\* encoded_line = self._encode_line(line)
DiaEncode ==
    /\ pc = "start"
    /\ encoded' = InDia_encode_line(text)
    /\ pc' = "encoded"
    /\ UNCHANGED <<cls, config, vocab, naive, text, tokens, decoded, decoded_string, idx,
                   pending, was_first_alphanum_token, result, counts>>

\* decoded_line = self._decode_line(line)
DiaDecode ==
    /\ pc = "encoded"
    /\ decoded' = InDia_decode_line(encoded)
    /\ pc' = "done"
    /\ UNCHANGED <<cls, config, vocab, naive, text, tokens, encoded, decoded_string, idx,
                   pending, was_first_alphanum_token, result, counts>>

\* decoded_line = self._decode_line(line), for a line that was not encoded
\* first
DiaDecodePlain ==
    /\ pc = "start"
    /\ encoded' = text
    /\ decoded' = InDia_decode_line(text)
    /\ pc' = "decoded"
    /\ UNCHANGED <<cls, config, vocab, naive, text, tokens, decoded_string, idx,
                   pending, was_first_alphanum_token, result, counts>>

NextDia == DiaEncode \/ DiaDecode \/ DiaDecodePlain

SpecDia == InitDia /\ [][NextDia]_vars

(* C3: for every line whose diacritical marks all belong to the configured  *)
(* set (characters with more than one configured mark included),            *)
(* InDia._decode_line(InDia._encode_line(L)) = L.                           *)
C3_DiaRoundTrip == pc = "done" => decoded = text

\* the same, for the lines whose characters carry at most one configured
\* mark each
C3_DiaRoundTripSingleMarks ==
    (pc = "done" /\ "U+01FB" \notin Range(text)) => decoded = text

(* C10: with vocabulary {"cerny": <c-caron e r n y-acute>} and the default  *)
(* Czech diacritic set, decoding the plain token "cerny" gives the          *)
(* vocabulary form.                                                         *)
C10_DecodeCerny ==
    (pc = "decoded" /\ vocab = [b \in {Cerny} |-> CernyForm] /\ text = Cerny)
        => decoded = CernyForm

C10_Witness ==
    /\ pc = "decoded" /\ vocab = [b \in {Cerny} |-> CernyForm]
    /\ text = Cerny /\ decoded = CernyForm

----------------------------------------------------------------------------
(* Specification SpecDecode: decode_string of either class, one step per    *)
(* line and per token of _decode_line's loop.  The text handed in is made   *)
(* of a few pieces: flag tokens, a word, separators and the newline.        *)

NL == "U+000A"

InCaPieces ==
    { DefaultFlags.upper, DefaultFlags.allcaps, <<"a">>, <<".">>, <<" ">>, <<NL>> }

\* a well-formed delta token (acute at offset 0) and a malformed one
InDiaPieces ==
    { <<DICT_FLAG, "0", DICT_FLAG, "U+24B6">>, <<DICT_FLAG>>,
      <<"a">>, <<".">>, <<" ">>, <<NL>> }

RECURSIVE Texts(_, _)
Texts(P, n) ==
    IF n = 0 THEN {<<>>}
    ELSE LET T == Texts(P, n - 1) IN T \cup {t \o p : t \in T, p \in P}

InitDecode ==
    /\ pc = "start"
    /\ \/ /\ cls = "InCa"
          /\ config \in [min_count : {1}, flags : {DefaultFlags},
                         include_allcaps : {FALSE},
                         include_sent_initial : BOOLEAN]
          /\ vocab \in {EmptyVocab, [b \in {<<"a">>} |-> <<"A">>]}
          /\ text \in Texts(InCaPieces, MaxPieces)
       \/ /\ cls = "InDia"
          /\ config \in DiaConfigs
          /\ vocab \in {EmptyVocab, [b \in {<<"a">>} |-> <<"U+00E1">>]}
          /\ text \in Texts(InDiaPieces, MaxPieces)
    /\ naive = FALSE
    /\ encoded = <<>> /\ decoded = <<>> /\ tokens = <<>>
    /\ idx = [line |-> 0, tok |-> 0]
    /\ pending = None /\ was_first_alphanum_token = FALSE
    /\ result = <<>> /\ counts = Idle /\ decoded_string = <<>>

\* string.split('\n')
Lines == str_split(text, NL)

\* the registers of the running _decode_line, as the loop state
LoopState == [action |-> pending, was_first |-> was_first_alphanum_token,
              result |-> result, raised |-> FALSE]

\* decode_string is called: decoded_string = []
DecStart ==
    /\ pc = "start"
    /\ decoded_string' = <<>>
    /\ idx' = [line |-> 1, tok |-> 0]
    /\ pc' = "next_line"
    /\ UNCHANGED <<cls, config, vocab, naive, text, tokens, encoded, decoded,
                   pending, was_first_alphanum_token, result, counts>>

\* _decode_line is called for the next line: the ALLCAPS prefix returns at
\* once; otherwise the locals are initialized and the line is tokenized
DecLineStart ==
    /\ pc = "next_line"
    /\ idx.line <= Len(Lines)
    /\ LET line == Lines[idx.line]
           st == IF cls = "InCa" THEN InCa_decode_start ELSE InDia_decode_start
       IN  IF cls = "InCa" /\ HasAllcapsPrefix(line)
           THEN /\ decoded_string' =
                       Append(decoded_string,
                              NFC(str_upper(SubSeqFrom(line, 3, Len(line)))))
                /\ idx' = [idx EXCEPT !.line = @ + 1]
                /\ UNCHANGED <<pc, tokens, pending, was_first_alphanum_token,
                               result>>
           ELSE /\ tokens' = IF cls = "InCa" THEN InCa_tokenize(line)
                                             ELSE InDia_tokenize(line)
                /\ pending' = st.action
                /\ was_first_alphanum_token' = st.was_first
                /\ result' = st.result
                /\ idx' = [idx EXCEPT !.tok = 1]
                /\ pc' = "loop"
                /\ UNCHANGED decoded_string
    /\ UNCHANGED <<cls, config, vocab, naive, text, encoded, decoded, counts>>

\* one pass of the for-loop of _decode_line
DecToken ==
    /\ pc = "loop"
    /\ idx.tok <= Len(tokens)
    /\ LET st == IF cls = "InCa"
                 THEN InCa_decode_step(LoopState, tokens[idx.tok], naive)
                 ELSE InDia_decode_step(LoopState, tokens[idx.tok])
       IN  /\ pending' = st.action
           /\ was_first_alphanum_token' = st.was_first
           /\ result' = st.result
           /\ IF st.raised
              THEN pc' = "raised" /\ idx' = idx
              ELSE pc' = pc /\ idx' = [idx EXCEPT !.tok = @ + 1]
    /\ UNCHANGED <<cls, config, vocab, naive, text, tokens, encoded, decoded,
                   decoded_string, counts>>

\* the loop of _decode_line is over: the line is detokenized, returned and
\* appended to decoded_string
DecLineEnd ==
    /\ pc = "loop"
    /\ idx.tok > Len(tokens)
    /\ decoded_string' =
          Append(decoded_string,
                 IF cls = "InCa" THEN NFC(InCa_detokenize(result))
                                 ELSE InDia_detokenize(result))
    /\ idx' = [idx EXCEPT !.line = @ + 1]
    /\ pc' = "next_line"
    /\ UNCHANGED <<cls, config, vocab, naive, text, tokens, encoded, decoded,
                   pending, was_first_alphanum_token, result, counts>>

\* return '\n'.join(decoded_string)
DecJoin ==
    /\ pc = "next_line"
    /\ idx.line > Len(Lines)
    /\ decoded' = str_join(<<NL>>, decoded_string)
    /\ pc' = "done"
    /\ UNCHANGED <<cls, config, vocab, naive, text, tokens, encoded,
                   decoded_string, idx, pending, was_first_alphanum_token,
                   result, counts>>

NextDecode == DecStart \/ DecLineStart \/ DecToken \/ DecLineEnd \/ DecJoin

SpecDecode == InitDecode /\ [][NextDecode]_vars

\* a flag token of the running class's decoder
IsFlagToken(t) ==
    IF cls = "InCa" THEN InCa_is_flag_token(t) ELSE InDia_is_flag_token(t)

\* a word-forming token that is no flag token
IsWordToken(t) ==
    /\ t[1] \in (IF cls = "InCa" THEN InCa_ALPHANUMERIC_CHAR_SET
                                 ELSE InDia_ALPHANUMERIC_CHAR_SET)
    /\ ~IsFlagToken(t)

\* the loop is about to handle (or has raised on) a word-forming token that
\* does not come right after a flag token
AtWordNotAfterFlag ==
    /\ pc \in {"loop", "raised"}
    /\ idx.tok <= Len(tokens)
    /\ IsWordToken(tokens[idx.tok])
    /\ idx.tok = 1 \/ ~IsFlagToken(tokens[idx.tok - 1])

(* C6: in both decoders, a flag token that is not immediately followed by a *)
(* word-forming token (the line ends, or a separator follows) is dropped:   *)
(* when the loop reaches a later word-forming token the pending register is *)
(* empty, so that token is not transformed, and nothing is raised.          *)
C6_DanglingFlagDropped ==
    AtWordNotAfterFlag => (pending = None /\ pc # "raised")

\* the part of C6 that the code keeps: a flag at the end of the line is
\* never emitted and raises nothing
C6_FlagAtEndOfLine ==
    (pc = "loop" /\ idx.tok > Len(tokens) /\ Len(tokens) > 0
        /\ IsFlagToken(tokens[Len(tokens)]))
        => \A i \in DOMAIN result : ~IsFlagToken(result[i])

\* the line each class's _decode_line gives for a line alone
DecodeLineAlone(line) ==
    IF cls = "InCa" THEN InCa_decode_line(line, naive) ELSE InDia_decode_line(line)

(* C9: the pending register and the seen-first-word flag are reset at the   *)
(* start of every line, and decode_string gives, for each line, what        *)
(* _decode_line gives for that line alone.                                  *)
C9_PerLineIndependence ==
    /\ (pc = "loop" /\ idx.tok = 1)
          => (pending = None /\ ~was_first_alphanum_token /\ result = <<>>)
    /\ pc = "done"
          => decoded = str_join(<<NL>>,
                          [i \in DOMAIN Lines |-> DecodeLineAlone(Lines[i])])

\* a text of two lines has been decoded: the first line ends with a pending
\* UPPER flag, the word of the second line is not upper-cased
C9_Witness ==
    /\ pc = "done" /\ cls = "InCa" /\ config.include_sent_initial
    /\ vocab = EmptyVocab
    /\ text = <<"U+A505", NL, "a">>
    /\ decoded = <<NL, "a">>

----------------------------------------------------------------------------
(* The trainers: _collect_counts and _save_vocab of both classes            *)

CR == "U+000D"

\* line.rstrip('\n\r')
RECURSIVE str_rstrip_newlines(_)
str_rstrip_newlines(s) ==
    IF s # <<>> /\ s[Len(s)] \in {NL, CR}
    THEN str_rstrip_newlines(SubSeqFrom(s, 1, Len(s) - 1))
    ELSE s

\* A collections.Counter is a sequence of [form, n] in the order in which
\* the forms were first counted.
Counter_forms(counter) == {counter[i].form : i \in DOMAIN counter}

\* counter[token] += 1
Counter_add(counter, token) ==
    IF token \in Counter_forms(counter)
    THEN [i \in DOMAIN counter |->
            IF counter[i].form = token
            THEN [counter[i] EXCEPT !.n = @ + 1] ELSE counter[i]]
    ELSE Append(counter, [form |-> token, n |-> 1])

\* a choice among the forms with the highest count that is not the same in
\* every run: the first one in the first run, the last one afterwards
most_common_1_RunDependent(counter) ==
    LET top == {i \in DOMAIN counter :
                    \A j \in DOMAIN counter : counter[j].n <= counter[i].n}
    IN  IF idx = 0
        THEN counter[CHOOSE i \in top : \A j \in top : i <= j]
        ELSE counter[CHOOSE i \in top : \A j \in top : i >= j]

\* counter.most_common(1)[0]: the first of the forms with the highest count
most_common_1(counter) ==
    LET top == {i \in DOMAIN counter :
                    \A j \in DOMAIN counter : counter[j].n <= counter[i].n}
    IN  counter[CHOOSE i \in top : \A j \in top : i <= j]

EmptyCounts == [b \in {} |-> <<>>]

\* counts[base][token] += 1, with the Counter made when the base is new
Counts_add(cnts, base, token) ==
    [b \in DOMAIN cnts \cup {base} |->
        IF b = base
        THEN Counter_add(IF base \in DOMAIN cnts THEN cnts[base] ELSE <<>>, token)
        ELSE cnts[b]]

\* The token loop of InCa._collect_counts for one line.
RECURSIVE InCa_collect_tokens(_, _, _, _)
InCa_collect_tokens(cnts, toks, i, was_first) ==
    IF i > Len(toks) THEN cnts
    ELSE LET token == toks[i]
             base  == str_lower(token)
             is_cased == str_upper(base) # base
         IN  IF token[1] \notin InCa_ALPHANUMERIC_CHAR_SET
             THEN InCa_collect_tokens(cnts, toks, i + 1, was_first)
             ELSE IF ~config.include_sent_initial /\ ~was_first
             THEN InCa_collect_tokens(cnts, toks, i + 1, TRUE)
             ELSE InCa_collect_tokens(
                     IF is_cased THEN Counts_add(cnts, base, token) ELSE cnts,
                     toks, i + 1, TRUE)

\* a line loop that takes the first word of a line as already seen
InCa_collect_line_CountFirst(cnts, line0) ==
    LET line == str_rstrip_newlines(line0)
    IN  IF ~config.include_allcaps /\ str_isupper(line)
        THEN cnts
        ELSE InCa_collect_tokens(cnts, InCa_tokenize(NFC(line)), 1, TRUE)

\* The body of the line loop of InCa._collect_counts.
InCa_collect_line(cnts, line0) ==
    LET line == str_rstrip_newlines(line0)
    IN  IF ~config.include_allcaps /\ str_isupper(line)
        THEN cnts
        ELSE InCa_collect_tokens(cnts, InCa_tokenize(NFC(line)), 1, FALSE)

\* The token loop of InDia._collect_counts for one line.
RECURSIVE InDia_collect_tokens(_, _, _)
InDia_collect_tokens(cnts, toks, i) ==
    IF i > Len(toks) THEN cnts
    ELSE IF toks[i][1] \notin InDia_ALPHANUMERIC_CHAR_SET
    THEN InDia_collect_tokens(cnts, toks, i + 1)
    ELSE InDia_collect_tokens(
            Counts_add(cnts, InDia_dediacritize(toks[i]), toks[i]),
            toks, i + 1)

\* The body of the line loop of InDia._collect_counts.
InDia_collect_line(cnts, line0) ==
    InDia_collect_tokens(cnts, InDia_tokenize(str_rstrip_newlines(line0)), 1)

\* a threshold test that wants more than min_count
InCa_save_vocab_Strict(cnts) ==
    LET kept == {base \in DOMAIN cnts :
                    /\ most_common_1(cnts[base]).n > config.min_count
                    /\ most_common_1(cnts[base]).form # base}
    IN  [base \in kept |-> most_common_1(cnts[base]).form]

\* InCa._save_vocab(counts)
InCa_save_vocab(cnts) ==
    LET kept == {base \in DOMAIN cnts :
                    /\ most_common_1(cnts[base]).n >= config.min_count
                    /\ most_common_1(cnts[base]).form # base}
    IN  [base \in kept |-> most_common_1(cnts[base]).form]

\* a trainer that keeps the most frequent form also when it is the base
InDia_save_vocab_KeepBase(cnts, min_count) ==
    LET kept == {base_token \in DOMAIN cnts :
                    most_common_1(cnts[base_token]).n >= min_count}
    IN  [base_token \in kept |-> most_common_1(cnts[base_token]).form]

\* InDia._save_vocab(counts, min_count)
InDia_save_vocab(cnts, min_count) ==
    LET kept == {base_token \in DOMAIN cnts :
                    /\ most_common_1(cnts[base_token]).form # base_token
                    /\ most_common_1(cnts[base_token]).n >= min_count}
    IN  [base_token \in kept |-> most_common_1(cnts[base_token]).form]

----------------------------------------------------------------------------
(* Specification SpecTrain: train_vocab of either class reads a corpus line *)
(* by line, then saves the vocabulary.                                      *)

InCaTrainWords == {<<"a">>, <<"A">>, <<"A", "a">>}
InDiaTrainWords == {<<"a">>, <<"U+00E1">>, <<"U+00E1", "a">>}

\* the lines of a corpus file: words with a space between them, each line
\* with its newline
TrainLines(words) ==
    {str_join(<<" ">>, ws) \o <<NL>> : ws \in SeqsUpTo(words, MaxLineWords)}

InitTrain ==
    /\ pc = "collect"
    /\ \/ /\ cls = "InCa"
          /\ config \in [min_count : 1..MaxMinCount, flags : {DefaultFlags},
                         include_allcaps : BOOLEAN,
                         include_sent_initial : BOOLEAN]
       \/ /\ cls = "InDia"
          /\ \E m \in 1..MaxMinCount :
                config = InDia_create_flag_set(DefaultDiacrList, m)
    /\ vocab = EmptyVocab
    /\ counts = EmptyCounts
    /\ idx = 0
    /\ naive = FALSE /\ text = <<>> /\ tokens = <<>>
    /\ encoded = <<>> /\ decoded = <<>> /\ decoded_string = <<>>
    /\ pending = None /\ was_first_alphanum_token = FALSE /\ result = <<>>

\* the minimum count of the running training
MinCount == IF cls = "InCa" THEN config.min_count ELSE config.MIN_COUNT

\* one pass of the line loop of _collect_counts
TrainLine ==
    /\ pc = "collect"
    /\ idx < MaxCorpus
    /\ \E line \in TrainLines(IF cls = "InCa" THEN InCaTrainWords
                                              ELSE InDiaTrainWords) :
          counts' = IF cls = "InCa" THEN InCa_collect_line(counts, line)
                                    ELSE InDia_collect_line(counts, line)
    /\ idx' = idx + 1
    /\ UNCHANGED <<cls, pc, config, vocab, naive, text, tokens, encoded, decoded,
                   decoded_string, pending, was_first_alphanum_token, result>>

\* the corpus is read: self.vocab = self._save_vocab(counts)
TrainSave ==
    /\ pc = "collect"
    /\ vocab' = IF cls = "InCa" THEN InCa_save_vocab(counts)
                                ELSE InDia_save_vocab(counts, config.MIN_COUNT)
    /\ pc' = "trained"
    /\ UNCHANGED <<cls, config, naive, text, tokens, encoded, decoded,
                   decoded_string, idx, pending, was_first_alphanum_token,
                   result, counts>>

NextTrain == TrainLine \/ TrainSave

SpecTrain == InitTrain /\ [][NextTrain]_vars

\* the count of a form of a base (0 when it was never counted)
CountOf(base, form) ==
    LET hits == {i \in DOMAIN counts[base] : counts[base][i].form = form}
    IN  IF hits = {} THEN 0 ELSE counts[base][CHOOSE i \in hits : TRUE].n

\* the highest count among the forms of a base
MaxCount(base) ==
    CHOOSE n \in {counts[base][i].n : i \in DOMAIN counts[base]} :
        \A i \in DOMAIN counts[base] : counts[base][i].n <= n

C8_VocabularySparsity ==
    pc = "trained" =>
        /\ DOMAIN vocab \subseteq DOMAIN counts
        /\ \A base \in DOMAIN vocab :
              /\ vocab[base] # base
              /\ CountOf(base, vocab[base]) = MaxCount(base)
              /\ CountOf(base, vocab[base]) >= MinCount
        /\ \A base \in DOMAIN counts :
              (\A i \in DOMAIN counts[base] :
                    counts[base][i].form # base
                        => counts[base][i].n < CountOf(base, base))
                  => base \notin DOMAIN vocab
        /\ idx = 0 => vocab = EmptyVocab

\* a vocabulary with an entry has been trained from a corpus in which
\* another base has the base itself as its most frequent form, although a
\* second form of it reaches min_count
C8_Witness ==
    /\ pc = "trained" /\ vocab # EmptyVocab
    /\ \E base \in DOMAIN counts :
          /\ base \notin DOMAIN vocab
          /\ \E i \in DOMAIN counts[base] :
                /\ counts[base][i].form # base
                /\ counts[base][i].n >= MinCount
                /\ counts[base][i].n < CountOf(base, base)

----------------------------------------------------------------------------
(* Specification SpecUse: an object of either class, with its vocabulary    *)
(* and configuration loaded, serves a sequence of encode / decode calls.    *)

\* the lines a file object yields: every line with its newline, the last
\* one without when the file does not end with a newline
FileLines(s) ==
    LET parts == str_split(s, NL)
        n     == Len(parts)
        whole == [i \in 1..(n - 1) |-> Append(parts[i], NL)]
    IN  IF parts[n] = <<>> THEN whole ELSE Append(whole, parts[n])

\* self._encode_line(line, naive_encoding=nv) of the object in use
EncodeLine(line, nv) ==
    IF cls = "InCa" THEN InCa_encode_line(line, nv) ELSE InDia_encode_line(line)

\* self._decode_line(line, naive_decoding=nv) of the object in use
DecodeLine(line, nv) ==
    IF cls = "InCa" THEN InCa_decode_line(line, nv) ELSE InDia_decode_line(line)

\* ''.join of a list of strings (what a sequence of write() calls leaves)
RECURSIVE Concat(_)
Concat(parts) == IF parts = <<>> THEN <<>> ELSE Head(parts) \o Concat(Tail(parts))

\* encode_string(string, naive_encoding=nv)
encode_string(string, nv) ==
    LET ls == str_split(string, NL)
    IN  str_join(<<NL>>, [i \in DOMAIN ls |-> EncodeLine(ls[i], nv)])

\* decode_string(string, naive_decoding=nv); an exception of _decode_line
\* leaves the call
decode_string(string, nv) ==
    LET ls  == str_split(string, NL)
        out == [i \in DOMAIN ls |-> DecodeLine(ls[i], nv)]
    IN  IF \E i \in DOMAIN out : out[i] = Raised THEN Raised
        ELSE str_join(<<NL>>, out)

\* encode(input_fname, output_fname, naive_encoding=nv): the content written
\* to the output file for the content of the input file
encode_file(content, nv) ==
    LET ls == FileLines(content)
    IN  Concat([i \in DOMAIN ls |-> EncodeLine(ls[i], nv)])

\* decode(input_fname, output_fname, naive_decoding=nv)
decode_file(content, nv) ==
    LET ls  == FileLines(content)
        out == [i \in DOMAIN ls |-> DecodeLine(ls[i], nv)]
    IN  IF \E i \in DOMAIN out : out[i] = Raised THEN Raised
        ELSE Concat(out)

\* the strings handed to the calls: plain and cased words, a flag token
\* before a word, an upper-case line of two words, two lines, a malformed
\* delta token
UseTexts ==
    IF cls = "InCa"
    THEN { <<"a">>, <<"A", " ", "a">>, <<"A", " ", "A">>,
           DefaultFlags.upper \o <<" ", "a">>,
           DefaultFlags.allcaps \o <<" ", "a">>,
           <<"A", "a", NL, "a">> }
    ELSE { <<"a">>, <<"U+00E1", " ", "a">>, <<"U+01FB">>,
           <<DICT_FLAG, "0", DICT_FLAG, "U+24B6", " ", "a">>,
           <<DICT_FLAG, " ", "a">>,
           <<"U+00E5", NL, "a">> }

InitUse ==
    /\ pc = "ready"
    /\ \/ /\ cls = "InCa"
          /\ config \in CaseConfigs
          /\ vocab \in {EmptyVocab, [b \in {<<"a">>} |-> <<"A">>]}
       \/ /\ cls = "InDia"
          /\ config \in DiaConfigs
          /\ vocab \in {EmptyVocab, [b \in {<<"a">>} |-> <<"U+00E1">>]}
    /\ naive = FALSE /\ text = <<>>
    /\ encoded = <<>> /\ decoded = <<>> /\ tokens = <<>>
    /\ idx = 0
    /\ pending = None /\ was_first_alphanum_token = FALSE
    /\ result = <<>> /\ counts = Idle /\ decoded_string = <<>>

\* what every call leaves alone besides the object's attributes
UseFrame ==
    UNCHANGED <<cls, pc, tokens, decoded_string, pending,
                was_first_alphanum_token, result, counts>>

\* the naive_encoding / naive_decoding arguments a call can be given
NaiveArgs == IF cls = "InCa" THEN BOOLEAN ELSE {FALSE}

\* a call of _encode_line
UseEncodeLine ==
    /\ idx < MaxCalls
    /\ \E line \in UseTexts, nv \in NaiveArgs :
          /\ text' = line /\ naive' = nv
          /\ encoded' = EncodeLine(line, nv)
    /\ idx' = idx + 1
    /\ UNCHANGED <<config, vocab, decoded>>
    /\ UseFrame

\* a decoder that remembers what it decoded in the vocabulary
UseDecodeLine_Memo ==
    /\ idx < MaxCalls
    /\ \E line \in UseTexts, nv \in NaiveArgs :
          /\ text' = line /\ naive' = nv
          /\ decoded' = DecodeLine(line, nv)
          /\ vocab' = [b \in DOMAIN vocab \cup {line} |-> DecodeLine(line, nv)]
    /\ idx' = idx + 1
    /\ UNCHANGED <<config, encoded>>
    /\ UseFrame

\* a call of _decode_line
UseDecodeLine ==
    /\ idx < MaxCalls
    /\ \E line \in UseTexts, nv \in NaiveArgs :
          /\ text' = line /\ naive' = nv
          /\ decoded' = DecodeLine(line, nv)
    /\ idx' = idx + 1
    /\ UNCHANGED <<config, vocab, encoded>>
    /\ UseFrame

\* a call of encode_string
UseEncodeString ==
    /\ idx < MaxCalls
    /\ \E string \in UseTexts, nv \in NaiveArgs :
          /\ text' = string /\ naive' = nv
          /\ encoded' = encode_string(string, nv)
    /\ idx' = idx + 1
    /\ UNCHANGED <<config, vocab, decoded>>
    /\ UseFrame

\* a call of decode_string
UseDecodeString ==
    /\ idx < MaxCalls
    /\ \E string \in UseTexts, nv \in NaiveArgs :
          /\ text' = string /\ naive' = nv
          /\ decoded' = decode_string(string, nv)
    /\ idx' = idx + 1
    /\ UNCHANGED <<config, vocab, encoded>>
    /\ UseFrame

\* a call of encode on a file with the given content
UseEncodeFile ==
    /\ idx < MaxCalls
    /\ \E content \in UseTexts, nv \in NaiveArgs :
          /\ text' = content /\ naive' = nv
          /\ encoded' = encode_file(content, nv)
    /\ idx' = idx + 1
    /\ UNCHANGED <<config, vocab, decoded>>
    /\ UseFrame

\* a call of decode on a file with the given content
UseDecodeFile ==
    /\ idx < MaxCalls
    /\ \E content \in UseTexts, nv \in NaiveArgs :
          /\ text' = content /\ naive' = nv
          /\ decoded' = decode_file(content, nv)
    /\ idx' = idx + 1
    /\ UNCHANGED <<config, vocab, encoded>>
    /\ UseFrame

NextUse ==
    \/ UseEncodeLine \/ UseDecodeLine
    \/ UseEncodeString \/ UseDecodeString
    \/ UseEncodeFile \/ UseDecodeFile

SpecUse == InitUse /\ [][NextUse]_vars

(* C11: the vocabulary and the configuration are read-only after loading:   *)
(* no encode or decode call of either class, in naive or vocabulary-driven  *)
(* mode, changes self.vocab or self.config.                                 *)
C11_VocabConfigReadOnly == [][vocab' = vocab /\ config' = config]_vars

\* an object with a vocabulary entry has served MaxCalls calls, among them
\* an encode and a decode that used the entry
C11_Witness ==
    /\ idx = MaxCalls /\ vocab # EmptyVocab
    /\ encoded # <<>> /\ decoded # <<>> /\ decoded # text

----------------------------------------------------------------------------
(* Specification SpecRetrain: train_vocab is run twice on the same corpus   *)
(* with the same configuration.                                             *)

\* The line loop of _collect_counts over a whole corpus.
RECURSIVE collect_counts(_, _, _)
collect_counts(cnts, corpus, i) ==
    IF i > Len(corpus) THEN cnts
    ELSE collect_counts(IF cls = "InCa" THEN InCa_collect_line(cnts, corpus[i])
                                        ELSE InDia_collect_line(cnts, corpus[i]),
                        corpus, i + 1)

\* self._save_vocab of the class in use
save_vocab(cnts) ==
    IF cls = "InCa" THEN InCa_save_vocab(cnts)
                    ELSE InDia_save_vocab(cnts, config.MIN_COUNT)

\* lines of the corpora: two forms of a base in either order (a tie when
\* both are counted), a line that adds one more form, a one-word line
RetrainLines ==
    IF cls = "InCa"
    THEN { <<"a", " ", "A", NL>>, <<"A", " ", "a", NL>>,
           <<"a", " ", "a", " ", "A", NL>>, <<"A", NL>> }
    ELSE { <<"a", " ", "U+00E1", NL>>, <<"U+00E1", " ", "a", NL>>,
           <<"a", " ", "a", " ", "U+00E1", NL>>, <<"U+00E1", NL>> }

InitRetrain ==
    /\ pc = "train"
    /\ \/ /\ cls = "InCa"
          /\ config \in [min_count : 1..MaxMinCount, flags : {DefaultFlags},
                         include_allcaps : BOOLEAN,
                         include_sent_initial : BOOLEAN]
       \/ /\ cls = "InDia"
          /\ \E m \in 1..MaxMinCount :
                config = InDia_create_flag_set(DefaultDiacrList, m)
    /\ text \in SeqsUpTo(RetrainLines, MaxRetrainLines)
    /\ vocab = EmptyVocab
    /\ result = EmptyVocab
    /\ counts = EmptyCounts
    /\ idx = 0
    /\ naive = FALSE /\ tokens = <<>>
    /\ encoded = <<>> /\ decoded = <<>> /\ decoded_string = <<>>
    /\ pending = None /\ was_first_alphanum_token = FALSE

\* one run of train_vocab on the corpus; result keeps the vocabulary of the
\* run before
RetrainRun ==
    /\ pc = "train"
    /\ idx < 2
    /\ LET c == collect_counts(EmptyCounts, text, 1)
       IN  counts' = c /\ vocab' = save_vocab(c)
    /\ result' = vocab
    /\ idx' = idx + 1
    /\ UNCHANGED <<cls, pc, config, naive, text, tokens, encoded, decoded,
                   decoded_string, pending, was_first_alphanum_token>>

NextRetrain == RetrainRun

SpecRetrain == InitRetrain /\ [][NextRetrain]_vars

\* some base has two forms with the same highest count
HasTie ==
    \E base \in DOMAIN counts :
        \E i, j \in DOMAIN counts[base] :
            /\ i # j
            /\ counts[base][i].n = MaxCount(base)
            /\ counts[base][j].n = MaxCount(base)

----------------------------------------------------------------------------
(* Specification SpecCount: the line loop of InCa._collect_counts reads one *)
(* line of the corpus, after earlier lines have filled the counts table.    *)

CountChars == {"a", "A", "1", " ", "."}

CountLines == SeqsUpTo(CountChars, MaxCountLen)

\* the table before the line: empty, or with one form counted once
PriorCounts ==
    { EmptyCounts,
      [b \in {<<"a">>} |-> <<[form |-> <<"A">>, n |-> 1]>>] }

InitCount ==
    /\ cls = "InCa"
    /\ pc = "collect"
    /\ config \in CaseConfigs
    /\ text \in CountLines
    /\ counts \in PriorCounts
    /\ result = EmptyCounts
    /\ vocab = EmptyVocab
    /\ idx = 0
    /\ naive = FALSE /\ tokens = <<>>
    /\ encoded = <<>> /\ decoded = <<>> /\ decoded_string = <<>>
    /\ pending = None /\ was_first_alphanum_token = FALSE

\* one pass of the line loop, for the line text with its newline; result
\* keeps the table as it was before the line
CountLine ==
    /\ pc = "collect"
    /\ result' = counts
    /\ counts' = InCa_collect_line(counts, Append(text, NL))
    /\ pc' = "counted"
    /\ UNCHANGED <<cls, config, vocab, naive, text, tokens, encoded, decoded,
                   decoded_string, idx, pending, was_first_alphanum_token>>

NextCount == CountLine

SpecCount == InitCount /\ [][NextCount]_vars

\* the positions of the word-forming tokens in a token list
WordPositions(toks) ==
    {i \in DOMAIN toks : toks[i][1] \in InCa_ALPHANUMERIC_CHAR_SET}

\* the tokens of a line that enter the statistics: the word-forming tokens
\* with a case distinction, without the first word-forming token of the
\* line unless include_sent_initial is true
IsSelected(toks, i) ==
    /\ i \in WordPositions(toks)
    /\ str_upper(str_lower(toks[i])) # str_lower(toks[i])
    /\ config.include_sent_initial
          \/ \E j \in WordPositions(toks) : j < i

\* the table after the selected tokens of a line have been counted in order
RECURSIVE CountSelected(_, _, _)
CountSelected(cnts, toks, i) ==
    IF i > Len(toks) THEN cnts
    ELSE CountSelected(IF IsSelected(toks, i)
                       THEN Counts_add(cnts, str_lower(toks[i]), toks[i])
                       ELSE cnts,
                       toks, i + 1)

(* C14: when include_allcaps is false the trainer leaves out exactly the    *)
(* upper-case lines with more than one word; an upper-case line with a      *)
(* single word is counted, and with include_allcaps true no line is left    *)
(* out.                                                                     *)
C14_AllcapsLinesSkipped ==
    pc = "counted" =>
        IF ~config.include_allcaps /\ str_isupper(text)
              /\ NumWordTokens(text) >= 2
        THEN counts = result
        ELSE counts = CountSelected(result, InCa_tokenize(NFC(text)), 1)

\* what the code does: every upper-case line is left out, whatever the
\* number of its words
C14_UppercaseLinesSkipped ==
    pc = "counted" =>
        IF ~config.include_allcaps /\ str_isupper(text)
        THEN counts = result
        ELSE counts = CountSelected(result, InCa_tokenize(NFC(text)), 1)

\* the line loop did not leave the line out
LineCounted == config.include_allcaps \/ ~str_isupper(text)

(* C20: on every line it reads, the case trainer counts a word-forming      *)
(* token under its lower-case base only if the token has a case             *)
(* distinction and, when include_sent_initial is false, only if it is not   *)
(* the first word-forming token of the line (an uncased first token, such   *)
(* as a number, takes the place of the first word); with                    *)
(* include_sent_initial true the first token is counted like any other.     *)
C20_TokenSelection ==
    (pc = "counted" /\ LineCounted)
        => counts = CountSelected(result, InCa_tokenize(NFC(text)), 1)

\* include_sent_initial is false and the line starts with a number: the
\* number is left out as the first word, the word after it is counted
C20_Witness ==
    /\ pc = "counted" /\ ~config.include_sent_initial
    /\ text = <<"1", " ", "A", "a">>
    /\ result = EmptyCounts
    /\ counts = [b \in {<<"a", "a">>} |-> <<[form |-> <<"A", "a">>, n |-> 1]>>]

----------------------------------------------------------------------------
(* Specification SpecStep: InCa._decode_line on one line, one step per pass *)
(* of its for-loop.  The line is made of a few pieces: the three flags, a   *)
(* lower-case and an upper-case word, a space and a punctuation sign.       *)

StepPieces ==
    { DefaultFlags.upper, DefaultFlags.title, DefaultFlags.lower,
      <<"a">>, <<"A">>, <<" ">>, <<".">> }

InitStep ==
    /\ cls = "InCa"
    /\ pc = "start"
    /\ config \in [min_count : {1}, flags : {DefaultFlags},
                   include_allcaps : {FALSE},
                   include_sent_initial : BOOLEAN]
    /\ vocab \in {EmptyVocab, [b \in {<<"a">>} |-> <<"A">>]}
    /\ naive \in BOOLEAN
    /\ text \in Texts(StepPieces, MaxStepPieces)
    /\ encoded = <<>> /\ decoded = <<>> /\ tokens = <<>>
    /\ idx = [line |-> 1, tok |-> 0]
    /\ pending = None /\ was_first_alphanum_token = FALSE
    /\ result = <<>> /\ counts = Idle /\ decoded_string = <<>>

\* _decode_line is entered: the locals are initialized, the line tokenized
\* (no line of this specification has the ALLCAPS prefix)
StepStart ==
    /\ pc = "start"
    /\ ~HasAllcapsPrefix(text)
    /\ tokens' = InCa_tokenize(text)
    /\ pending' = InCa_decode_start.action
    /\ was_first_alphanum_token' = InCa_decode_start.was_first
    /\ result' = InCa_decode_start.result
    /\ idx' = [idx EXCEPT !.tok = 1]
    /\ pc' = "loop"
    /\ UNCHANGED <<cls, config, vocab, naive, text, encoded, decoded,
                   decoded_string, counts>>

\* one pass of the for-loop
StepToken ==
    /\ pc = "loop"
    /\ idx.tok <= Len(tokens)
    /\ LET st == InCa_decode_step(LoopState, tokens[idx.tok], naive)
       IN  /\ pending' = st.action
           /\ was_first_alphanum_token' = st.was_first
           /\ result' = st.result
    /\ idx' = [idx EXCEPT !.tok = @ + 1]
    /\ UNCHANGED <<cls, pc, config, vocab, naive, text, tokens, encoded,
                   decoded, decoded_string, counts>>

\* the loop is over: return NFC(_detokenize(result))
StepEnd ==
    /\ pc = "loop"
    /\ idx.tok > Len(tokens)
    /\ decoded' = NFC(InCa_detokenize(result))
    /\ pc' = "done"
    /\ UNCHANGED <<cls, config, vocab, naive, text, tokens, encoded,
                   decoded_string, idx, pending, was_first_alphanum_token,
                   result, counts>>

NextStep == StepStart \/ StepToken \/ StepEnd

SpecStep == InitStep /\ [][NextStep]_vars

\* a step of the loop over the token tokens[idx.tok]
TokenStep == pc = "loop" /\ idx.tok <= Len(tokens) /\ idx'.tok = idx.tok + 1

\* one of the three flags of the configuration
IsCaseFlag(token) ==
    token \in {config.flags.upper, config.flags.title, config.flags.lower}

\* the form C15 gives a word-forming non-flag token, from the registers
\* before the step
DecodedForm(token, use_vocab) ==
    IF pending = config.flags.upper THEN str_upper(token)
    ELSE IF pending = config.flags.title THEN str_capitalize(token)
    ELSE IF pending = config.flags.lower THEN str_lower(token)
    ELSE IF use_vocab /\ token \in DOMAIN vocab THEN vocab[token]
    ELSE IF /\ use_vocab /\ ~was_first_alphanum_token
            /\ ~config.include_sent_initial /\ token = str_lower(token)
         THEN str_capitalize(token)
    ELSE token

\* the effect C15 gives a step over a token, when is_flag tells the flag
\* tokens: a separator is emitted as it is, a flag token is kept pending and
\* not emitted, any other token is emitted in its decoded form, clears the
\* pending flag and sets the seen-first-word register
StepEffect(token, is_flag, use_vocab) ==
    IF token[1] \notin InCa_ALPHANUMERIC_CHAR_SET
    THEN /\ result' = Append(result, token)
         /\ UNCHANGED <<pending, was_first_alphanum_token>>
    ELSE IF is_flag
    THEN /\ pending' = token
         /\ UNCHANGED <<result, was_first_alphanum_token>>
    ELSE /\ result' = Append(result, DecodedForm(token, use_vocab))
         /\ pending' = None
         /\ was_first_alphanum_token' = TRUE

(* C15: in vocabulary-driven decoding, every word-forming token that is not *)
(* one of the flags is emitted transformed by the pending flag if one is    *)
(* set, else as the vocabulary's form if it has an entry, else title-cased  *)
(* if it is the first word of the line, include_sent_initial is false and   *)
(* it is all-lowercase, else unchanged; after it the pending flag is clear  *)
(* and seen_first_word is true; flag tokens are not emitted and do not set  *)
(* seen_first_word.                                                         *)
C15_DecodeOrder ==
    [][(TokenStep /\ ~naive)
          => StepEffect(tokens[idx.tok], IsCaseFlag(tokens[idx.tok]), TRUE)]_vars

\* what the code does: the same, with every token that is a substring of
\* the three flags written one after the other taken as a flag token, and
\* with neither vocabulary nor title-casing in naive decoding
C15_DecodeOrderSubstringFlags ==
    [][TokenStep
          => StepEffect(tokens[idx.tok], InCa_is_flag_token(tokens[idx.tok]),
                        ~naive)]_vars

----------------------------------------------------------------------------
(* Specification SpecEncTok: InCa._encode_token is called on one token,     *)
(* first of its line or not, under a vocabulary with no entry for its base  *)
(* or with an entry that a training run can produce.                        *)

WordChars == {"a", "A", "1"}

Words == SeqsUpTo(WordChars, MaxWordLen) \ {<<>>}

\* the vocabularies for a token: empty, or one entry base -> form with a
\* form the trainer can have counted under that base and saved
VocabsFor(token) ==
    {EmptyVocab} \cup
    { [b \in {str_lower(token)} |-> form] :
        form \in {f \in Words : /\ str_lower(f) = str_lower(token)
                                /\ f # str_lower(token)} }

InitEncTok ==
    /\ cls = "InCa"
    /\ pc = "start"
    /\ config \in CaseConfigs
    /\ text \in Words
    /\ vocab \in VocabsFor(text)
    /\ was_first_alphanum_token \in BOOLEAN     \* the is_first argument
    /\ naive = FALSE
    /\ encoded = <<>> /\ decoded = <<>> /\ tokens = <<>>
    /\ idx = 0 /\ pending = None
    /\ result = <<>> /\ counts = Idle /\ decoded_string = <<>>

\* self._encode_token(token, is_first)
EncTok ==
    /\ pc = "start"
    /\ encoded' = InCa_encode_token(text, was_first_alphanum_token)
    /\ pc' = "encoded"
    /\ UNCHANGED <<cls, config, vocab, naive, text, tokens, decoded,
                   decoded_string, idx, pending, was_first_alphanum_token,
                   result, counts>>

NextEncTok == EncTok

SpecEncTok == InitEncTok /\ [][NextEncTok]_vars

\* the casing shapes of a token
IsCasedWord(token) == str_upper(str_lower(token)) # str_lower(token)
AllLower(token) == token = str_lower(token) /\ IsCasedWord(token)
Uncased(token) == ~IsCasedWord(token)
AllUpper(token) == str_isupper(token)
Capitalized(token) ==
    token = str_capitalize(token) /\ ~AllUpper(token) /\ token # str_lower(token)

\* the vocabulary has an entry for the token's base / one that is not the
\* token
HasEntry(token) == str_lower(token) \in DOMAIN vocab
Mismatch(token) == HasEntry(token) /\ vocab[str_lower(token)] # token

\* the decision table as C16 states it
TableAsStated(token, is_first) ==
    LET base == str_lower(token)
    IN  IF HasEntry(token) /\ vocab[base] = token THEN base
        ELSE IF AllLower(token)
        THEN IF is_first \/ Mismatch(token)
             THEN Flagged(config.flags.lower, base) ELSE base
        ELSE IF Uncased(token) THEN base
        ELSE IF AllUpper(token) THEN Flagged(config.flags.upper, base)
        ELSE IF Capitalized(token)
        THEN IF ~is_first \/ Mismatch(token)
             THEN Flagged(config.flags.title, base) ELSE base
        ELSE token

\* the decision table with the all-lowercase tokens split by their first
\* character: a token that starts with an uncased character equals its own
\* capitalized form and is handled like a capitalized token when it is the
\* first word
TableAmended(token, is_first) ==
    LET base == str_lower(token)
        self_capitalized == token = str_capitalize(token)
    IN  IF HasEntry(token) /\ vocab[base] = token THEN base
        ELSE IF AllLower(token) /\ ~self_capitalized
        THEN IF is_first \/ Mismatch(token)
             THEN Flagged(config.flags.lower, base) ELSE base
        ELSE IF AllLower(token)
        THEN IF is_first
             THEN IF Mismatch(token)
                  THEN Flagged(config.flags.title, base) ELSE base
             ELSE IF Mismatch(token)
                  THEN Flagged(config.flags.lower, base) ELSE base
        ELSE IF Uncased(token) THEN base
        ELSE IF AllUpper(token)
        THEN IF is_first /\ Mismatch(token) /\ self_capitalized
             THEN Flagged(config.flags.title, base)
             ELSE Flagged(config.flags.upper, base)
        ELSE IF Capitalized(token)
        THEN IF ~is_first \/ Mismatch(token)
             THEN Flagged(config.flags.title, base) ELSE base
        ELSE token

----------------------------------------------------------------------------
(* Specification SpecDiaTok: the loops of InDia._encode_line and            *)
(* InDia._decode_line handle one word-forming token; the decoder may have   *)
(* read a flag token before it.                                             *)

DiaWordChars == {"a", "U+00E1", "U+00E5"}

DiaWords == SeqsUpTo(DiaWordChars, MaxDiaWordLen) \ {<<>>}

\* the vocabularies for a token: empty, or one entry base -> form with a
\* form the trainer can have counted under the token's base and saved
DiaVocabsFor(token) ==
    {EmptyVocab} \cup
    { [b \in {InDia_dediacritize(token)} |-> form] :
        form \in {f \in DiaWords :
                    /\ InDia_dediacritize(f) = InDia_dediacritize(token)
                    /\ f # InDia_dediacritize(token)} }

\* the glyphs of a delta: acute, ring above, BARE
DeltaGlyphs == {"U+24B6", "U+24B8", BARE_FLAG}

\* the non-empty deltas over the offsets up to MaxDeltaOffset (past the end
\* of the shortest tokens)
Deltas ==
    UNION { [O -> DeltaGlyphs] : O \in (SUBSET (0..MaxDeltaOffset)) \ {{}} }

InitDiaTok ==
    /\ cls = "InDia"
    /\ pc = "start"
    /\ config \in DiaConfigs
    /\ text \in DiaWords
    /\ vocab \in DiaVocabsFor(text)
    /\ naive = FALSE
    /\ encoded = <<>> /\ decoded = <<>> /\ tokens = <<>>
    /\ idx = 0 /\ pending = None /\ was_first_alphanum_token = FALSE
    /\ result = <<>> /\ counts = Idle /\ decoded_string = <<>>

\* one pass of the loop of _encode_line, for the token text
DiaEncTok ==
    /\ pc = "start" /\ tokens = <<>>
    /\ encoded' = InDia_encode_line_body(text)
    /\ pc' = "encoded"
    /\ UNCHANGED <<cls, config, vocab, naive, text, tokens, decoded,
                   decoded_string, idx, pending, was_first_alphanum_token,
                   result, counts>>

\* one pass of the loop of _decode_line, for a flag token
DiaDecFlag ==
    /\ pc = "start" /\ tokens = <<>>
    /\ \E D \in Deltas :
          LET token == InDia_flag_processing_encode(D)
              st    == InDia_decode_step(LoopState, token)
          IN  /\ tokens' = <<token>>
              /\ pending' = st.action
              /\ result' = st.result
    /\ UNCHANGED <<cls, pc, config, vocab, naive, text, encoded, decoded,
                   decoded_string, idx, was_first_alphanum_token, counts>>

\* one pass of the loop of _decode_line, for the token text
DiaDecTok ==
    /\ pc = "start"
    /\ LET st == InDia_decode_step(LoopState, text)
       IN  /\ pending' = st.action
           /\ result' = st.result
           /\ pc' = IF st.raised THEN "raised" ELSE "decoded"
    /\ tokens' = Append(tokens, text)
    /\ UNCHANGED <<cls, config, vocab, naive, text, encoded, decoded,
                   decoded_string, idx, was_first_alphanum_token, counts>>

NextDiaTok == DiaEncTok \/ DiaDecFlag \/ DiaDecTok

SpecDiaTok == InitDiaTok /\ [][NextDiaTok]_vars

\* the predicted form of a base ('' without vocabulary entry) and its map
PredictedForm(base) == IF base \in DOMAIN vocab THEN vocab[base] ELSE <<>>
PredictedMap(base) == InDia_detect_diacr(PredictedForm(base))

\* the delta of C17 between an input map and a predicted map
DeltaOf(I, P) ==
    LET differ == {k \in DOMAIN I \cup DOMAIN P :
                      ~(k \in DOMAIN I /\ k \in DOMAIN P /\ I[k] = P[k])}
    IN  [k \in differ |-> IF k \in DOMAIN I THEN I[k] ELSE BARE_FLAG]

(* C17: for a word-forming token with input map I and predicted map P, the  *)
(* encoder emits the base alone exactly when the delta {k : I[k] # P[k]}    *)
(* (value I[k], or BARE where only P has k) is empty, and otherwise the     *)
(* serialized delta, one space and the base.                                *)
C17_EncodeDelta ==
    pc = "encoded" =>
        LET base  == InDia_dediacritize(text)
            delta == DeltaOf(InDia_detect_diacr(text), PredictedMap(base))
        IN  /\ DOMAIN delta = {} <=> encoded = base
            /\ DOMAIN delta # {} =>
                  encoded = InDia_flag_processing_encode(delta)
                                \o <<" ">> \o base

\* the token has a ring at offset 1, the predicted form an acute at
\* offset 0: the delta is BARE at 0 and ring at 1
C17_Witness ==
    /\ pc = "encoded"
    /\ text = <<"a", "U+00E5">>
    /\ vocab = [b \in {<<"a", "a">>} |-> <<"U+00E1", "a">>]
    /\ encoded = <<DICT_FLAG, "0", KEY_FLAG, "1", DICT_FLAG,
                   BARE_FLAG, "U+24B8", " ", "a", "a">>

\* the pending delta the decoder had when it reached the word
PendingDelta ==
    IF Len(tokens) = 2 THEN InDia_flag_processing_decode(tokens[1])
    ELSE EmptyDict

\* the map of C18: the pending mark unless it is BARE, the predicted mark
\* where the pending delta has no entry
ResolvedMap(D, P) ==
    [k \in {k \in DOMAIN D \cup DOMAIN P :
                k \in DOMAIN D => D[k] # BARE_FLAG} |->
        IF k \in DOMAIN D THEN D[k] ELSE P[k]]

(* C18: a word-forming token is decoded with, at each offset of the pending *)
(* delta D and the predicted map P, the mark D[k] when D has k and it is    *)
(* not BARE, no mark when D[k] is BARE, and P[k] when only P has k; after   *)
(* the token the pending delta is empty.                                    *)
C18_DecodeResolution ==
    pc = "decoded" =>
        /\ result = <<InDia_restore_diacr(text,
                          ResolvedMap(PendingDelta, PredictedMap(text)))>>
        /\ pending = None

\* the pending delta is BARE at offset 0 and ring at offset 1, the
\* predicted form has an acute at offset 0: only the ring is applied
C18_Witness ==
    /\ pc = "decoded"
    /\ text = <<"a", "a">>
    /\ vocab = [b \in {<<"a", "a">>} |-> <<"U+00E1", "a">>]
    /\ tokens = << <<DICT_FLAG, "0", KEY_FLAG, "1", DICT_FLAG,
                     BARE_FLAG, "U+24B8">>, <<"a", "a">> >>
    /\ result = << <<"a", "U+00E5">> >>
    /\ pending = None

----------------------------------------------------------------------------
(* Specification SpecPrefix: InCa._decode_line is called on a line that may *)
(* start with the ALLCAPS flag, under every value of include_allcaps.       *)

PrefixPieces ==
    { DefaultFlags.allcaps, DefaultFlags.upper, <<" ">>, <<"a">>, <<"A">> }

InitPrefix ==
    /\ cls = "InCa"
    /\ pc = "start"
    /\ config \in CaseConfigs
    /\ vocab \in {EmptyVocab, [b \in {<<"a">>} |-> <<"A">>]}
    /\ naive \in BOOLEAN
    /\ text \in Texts(PrefixPieces, MaxPrefixPieces)
    /\ encoded = <<>> /\ decoded = <<>> /\ tokens = <<>>
    /\ idx = 0 /\ pending = None /\ was_first_alphanum_token = FALSE
    /\ result = <<>> /\ counts = Idle /\ decoded_string = <<>>

\* self._decode_line(line, naive_decoding) on the line text
PrefixDecode ==
    /\ pc = "start"
    /\ decoded' = InCa_decode_line(text, naive)
    /\ pc' = "decoded"
    /\ UNCHANGED <<cls, config, vocab, naive, text, tokens, encoded,
                   decoded_string, idx, pending, was_first_alphanum_token,
                   result, counts>>

NextPrefix == PrefixDecode

SpecPrefix == InitPrefix /\ [][NextPrefix]_vars

\* the line starts with the ALLCAPS flag and a space
StartsWithAllcaps ==
    str_startswith(text, config.flags.allcaps \o <<" ">>)

\* the rest of the line, uppercased
UppercasedRest == NFC(str_upper(SubSeqFrom(text, 3, Len(text))))

(* C19: whenever the line to decode starts with the ALLCAPS flag followed   *)
(* by a space, _decode_line returns the rest of the line uppercased,        *)
(* whatever the value of include_allcaps.                                   *)
C19_AllcapsShortCircuit ==
    (pc = "decoded" /\ StartsWithAllcaps) => decoded = UppercasedRest

\* what the code does: the short-circuit is taken when include_allcaps is
\* false
C19_AllcapsShortCircuitWhenExcluded ==
    (pc = "decoded" /\ StartsWithAllcaps /\ ~config.include_allcaps)
        => decoded = UppercasedRest

\* with include_allcaps true the prefixed line is decoded token by token
C19_PrefixDecodedByToken ==
    (pc = "decoded" /\ StartsWithAllcaps /\ config.include_allcaps)
        => decoded = NFC(InCa_detokenize(
                        InCa_decode_loop(InCa_tokenize(text), 1,
                                         InCa_decode_start, naive).result))

----------------------------------------------------------------------------
(* Specification SpecFlag: _flag_processing serializes a delta and parses   *)
(* the string back.  The delta is held in result, the parsed dict in        *)
(* decoded.                                                                 *)

\* glyphs of a delta: a diacritic's glyph, OOV, BARE
FlagGlyphs == {"U+24B6", OOV_FLAG, BARE_FLAG}

\* the non-empty dicts offset -> glyph with at most MaxDeltaKeys entries
FlagDicts ==
    UNION { [O -> FlagGlyphs] :
              O \in {O \in SUBSET (0..MaxOffset) :
                        O # {} /\ Cardinality(O) <= MaxDeltaKeys} }

InitFlag ==
    /\ cls = "InDia"
    /\ pc = "start"
    /\ config \in DiaConfigs
    /\ vocab = EmptyVocab
    /\ naive = FALSE
    /\ result \in FlagDicts
    /\ text = <<>> /\ encoded = <<>> /\ decoded = <<>> /\ tokens = <<>>
    /\ idx = 0 /\ pending = None /\ was_first_alphanum_token = FALSE
    /\ counts = Idle /\ decoded_string = <<>>

\* self._flag_processing(encode_diacr, 'encode')
FlagEncode ==
    /\ pc = "start"
    /\ encoded' = InDia_flag_processing_encode(result)
    /\ pc' = "encoded"
    /\ UNCHANGED <<cls, config, vocab, naive, text, tokens, decoded,
                   decoded_string, idx, pending, was_first_alphanum_token,
                   result, counts>>

\* self._flag_processing(diacritization, 'decode')
FlagDecode ==
    /\ pc = "encoded"
    /\ IF InDia_flag_processing_raises(encoded)
       THEN pc' = "raised" /\ decoded' = decoded
       ELSE pc' = "decoded" /\ decoded' = InDia_flag_processing_decode(encoded)
    /\ UNCHANGED <<cls, config, vocab, naive, text, tokens, encoded,
                   decoded_string, idx, pending, was_first_alphanum_token,
                   result, counts>>

NextFlag == FlagEncode \/ FlagDecode

SpecFlag == InitFlag /\ [][NextFlag]_vars

\* the decimal digits of a non-negative integer
RECURSIVE Decimal(_)
Decimal(k) ==
    LET d == <<"0", "1", "2", "3", "4", "5", "6", "7", "8", "9">>[(k % 10) + 1]
    IN  IF k < 10 THEN <<d>> ELSE Append(Decimal(k \div 10), d)

\* the offsets of D from index i on, in ascending order, each after the
\* first preceded by KEY_FLAG
RECURSIVE OffsetsText(_, _)
OffsetsText(O, first) ==
    IF O = {} THEN <<>>
    ELSE LET m == CHOOSE x \in O : \A y \in O : x <= y
         IN  (IF first THEN <<>> ELSE <<KEY_FLAG>>) \o Decimal(m)
                \o OffsetsText(O \ {m}, FALSE)

\* the glyphs of D in ascending order of their offsets
RECURSIVE GlyphsText(_, _)
GlyphsText(D, O) ==
    IF O = {} THEN <<>>
    ELSE LET m == CHOOSE x \in O : \A y \in O : x <= y
         IN  <<D[m]>> \o GlyphsText(D, O \ {m})

(* C21: for every non-empty delta D, _flag_processing(D, 'encode') is       *)
(* DICT_FLAG, the offsets in ascending numeric order joined by KEY_FLAG,    *)
(* DICT_FLAG, then the glyphs in the same order, and parsing that string    *)
(* with _flag_processing(., 'decode') neither raises nor gives anything but *)
(* D.                                                                       *)
C21_FlagRoundTrip ==
    /\ pc \in {"encoded", "decoded", "raised"} =>
          encoded = <<DICT_FLAG>> \o OffsetsText(DOMAIN result, TRUE)
                        \o <<DICT_FLAG>> \o GlyphsText(result, DOMAIN result)
    /\ pc # "raised"
    /\ pc = "decoded" => decoded = result

\* a delta with a two-digit offset that sorts after a one-digit one
\* numerically and before it as text
C21_Witness ==
    /\ pc = "decoded"
    /\ result = (2 :> BARE_FLAG) @@ (10 :> "U+24B6")
    /\ encoded = <<DICT_FLAG, "2", KEY_FLAG, "1", "0", DICT_FLAG,
                   BARE_FLAG, "U+24B6">>
    /\ decoded = result

----------------------------------------------------------------------------
(* Flag / base adjacency of the encoded line, on the encoded states of      *)
(* SpecCase and SpecDia.                                                    *)

\* the per-token flags of the case codec, and the glyphs of its four flags
CaseFlagTokens == {config.flags.upper, config.flags.title, config.flags.lower}
CaseFlagGlyphs ==
    {config.flags.upper[1], config.flags.title[1], config.flags.lower[1],
     config.flags.allcaps[1]}

\* the line holds none of the glyphs
HasNoGlyph(line, glyphs) == \A i \in DOMAIN line : line[i] \notin glyphs

\* the line is one the encoder replaces by its ALLCAPS form
TakesAllcapsShortcut(line) ==
    ~config.include_allcaps /\ IsAllcapsLine(NFC(line))

\* every flag token of toks is a token of its own and is followed at once
\* by a word-forming token that is no flag
CaseFlagsAdjacent(toks) ==
    \A i \in DOMAIN toks :
        IF toks[i] \in CaseFlagTokens
        THEN /\ i < Len(toks)
             /\ toks[i + 1] \notin CaseFlagTokens
             /\ toks[i + 1][1] \in InCa_ALPHANUMERIC_CHAR_SET
        ELSE HasNoGlyph(toks[i], CaseFlagGlyphs)

CaseNonFlagCount(toks) ==
    Cardinality({i \in DOMAIN toks : toks[i] \notin CaseFlagTokens})

(* C22: for every line without flag glyphs that does not take the ALLCAPS   *)
(* shortcut, the tokens of the case codec's encoded line have every flag    *)
(* token on its own, immediately followed by a word-forming base token, and *)
(* as many non-flag tokens as the input line has tokens.                    *)
C22_FlagBaseAdjacency ==
    (/\ cls = "InCa" /\ pc = "encoded"
     /\ HasNoGlyph(text, CaseFlagGlyphs)
     /\ ~TakesAllcapsShortcut(text))
        => /\ CaseFlagsAdjacent(InCa_tokenize(encoded))
           /\ CaseNonFlagCount(InCa_tokenize(encoded))
                  = Len(InCa_tokenize(text))

\* the same with the tokens of the composed (NFC) input line, which is the
\* line the encoder tokenizes
C22_FlagBaseAdjacencyComposed ==
    (/\ cls = "InCa" /\ pc = "encoded"
     /\ HasNoGlyph(text, CaseFlagGlyphs)
     /\ ~TakesAllcapsShortcut(text))
        => /\ CaseFlagsAdjacent(InCa_tokenize(encoded))
           /\ CaseNonFlagCount(InCa_tokenize(encoded))
                  = Len(InCa_tokenize(NFC(text)))

\* the glyphs of the diacritic codec's flag tokens
DiaFlagGlyphs ==
    {config.UPPER_LEVEL.KEY_FLAG, config.UPPER_LEVEL.DICT_FLAG}
        \cup DOMAIN config.FLAG2NAME

DiaFlagsAdjacent(toks) ==
    \A i \in DOMAIN toks :
        IF InDia_is_flag_token(toks[i])
        THEN /\ i < Len(toks)
             /\ ~InDia_is_flag_token(toks[i + 1])
             /\ toks[i + 1][1] \in InDia_ALPHANUMERIC_CHAR_SET
        ELSE HasNoGlyph(toks[i], DiaFlagGlyphs)

\* the diacritic codec's side of C22, on the lines of SpecDia
C22_DiaFlagBaseAdjacency ==
    (/\ cls = "InDia" /\ pc = "encoded"
     /\ HasNoGlyph(text, DiaFlagGlyphs))
        => LET toks == InDia_tokenize(encoded)
           IN  /\ DiaFlagsAdjacent(toks)
               /\ Cardinality({i \in DOMAIN toks :
                                  ~InDia_is_flag_token(toks[i])})
                      = Len(InDia_tokenize(text))

----------------------------------------------------------------------------
(* Specification SpecRestore: _restore_diacr is called on a word (text) and *)
(* a dict offset -> glyph (held in result).                                 *)

\* a letter, a letter that carries a mark already, a digit
RestoreChars == {"a", "U+00E1", "1"}

RestoreWords == SeqsUpTo(RestoreChars, MaxRestoreLen) \ {<<>>}

\* glyphs of the dict: acute, ring above, OOV
RestoreGlyphs == {"U+24B6", "U+24B8", OOV_FLAG}

\* the dicts over the offsets of the longest word and one offset past it
RestoreDicts ==
    UNION { [O -> RestoreGlyphs] : O \in SUBSET (0..MaxRestoreLen) }

InitRestore ==
    /\ cls = "InDia"
    /\ pc = "start"
    /\ config \in DiaConfigs
    /\ vocab = EmptyVocab
    /\ naive = FALSE
    /\ text \in RestoreWords
    /\ result \in RestoreDicts
    /\ encoded = <<>> /\ decoded = <<>> /\ tokens = <<>>
    /\ idx = 0 /\ pending = None /\ was_first_alphanum_token = FALSE
    /\ counts = Idle /\ decoded_string = <<>>

\* self._restore_diacr(input_base, decode_dict)
Restore ==
    /\ pc = "start"
    /\ LET final_w == InDia_restore_diacr(text, result)
       IN  IF final_w = Raised
           THEN pc' = "raised" /\ decoded' = decoded
           ELSE pc' = "restored" /\ decoded' = final_w
    /\ UNCHANGED <<cls, config, vocab, naive, text, tokens, encoded,
                   decoded_string, idx, pending, was_first_alphanum_token,
                   result, counts>>

NextRestore == Restore

SpecRestore == InitRestore /\ [][NextRestore]_vars

\* the offsets of the dict whose mark is to be applied: inside the word and
\* not OOV
AppliedOffsets(w, D) ==
    {k \in DOMAIN D : k < Len(w) /\ D[k] # OOV_FLAG}

\* the combining mark of a glyph
MarkOf(glyph) == UnicodeLookup(config.FLAG2NAME[glyph])

\* the word with the mark of every applied offset composed onto the
\* character at that offset, every other character as it is
RECURSIVE MarkedFrom(_, _, _)
MarkedFrom(w, D, i) ==
    IF i > Len(w) THEN <<>>
    ELSE (IF (i - 1) \in AppliedOffsets(w, D)
          THEN NFC(<<w[i], MarkOf(D[i - 1])>>)
          ELSE <<w[i]>>) \o MarkedFrom(w, D, i + 1)

\* the dict has an offset past the word or an OOV glyph
HasBadEntry(w, D) == \E k \in DOMAIN D : k >= Len(w) \/ D[k] = OOV_FLAG

(* C23: when the dict has an offset >= the length of the word or an OOV     *)
(* glyph, _restore_diacr raises nothing, ignores that offset or leaves it   *)
(* unmarked, applies the marks at all other offsets and leaves the          *)
(* characters at the offsets absent from the dict unchanged.                *)
C23_RestoreFailSoft ==
    /\ pc # "raised"
    /\ (pc = "restored" /\ HasBadEntry(text, result))
          => decoded = MarkedFrom(text, result, 1)

\* every applied mark composes with its character into one character
Composable(w, D) ==
    \A k \in AppliedOffsets(w, D) : Len(NFC(<<w[k + 1], MarkOf(D[k])>>)) = 1

\* the same for the words whose applied marks all compose
C23_RestoreFailSoftComposable ==
    /\ pc # "raised"
    /\ (pc = "restored" /\ HasBadEntry(text, result)
            /\ Composable(text, result))
          => decoded = MarkedFrom(text, result, 1)

====
